---- MODULE Spec2Model ----
(***************************************************************************)
(* Model of gerrit_python_tools/gerrit.py: the label voting model (Label,  *)
(* Approval), the gates of CommentAdded and the propagation workflow       *)
(* CommentAdded.send_upstream.                                             *)
(*                                                                         *)
(* Python dictionaries are functions whose DOMAIN is the set of keys that  *)
(* are present; d.get(k, default) is Get(d, k, default).  Python strings   *)
(* that the code inspects (the comment, the trigger) are sequences of      *)
(* one-character strings; strings the code only passes on are TLA+ strings.*)
(***************************************************************************)
EXTENDS Integers, Sequences, FiniteSets, TLC

VARIABLES
    label,      \* a Label object: [name, _min, _max, _values]
    conf,       \* the configuration dictionary
    data,       \* the raw event record of a CommentAdded
    approvals,  \* a list of Approval objects (their data dictionaries)
    labels,     \* the dictionary of Label objects built by is_upstream_approved
    ret,        \* what the last call of a pure method returned or raised
    pc,         \* position of send_upstream
    exc,        \* the exception in flight or raised by send_upstream
    cmds,       \* every remote command, local command and directory operation issued
    dirs,       \* the scratch directories that exist
    cwd,        \* the working directory of the process
    local,      \* the local variables of send_upstream
    hist,       \* outcomes met by send_upstream (what the environment answered)
    call,       \* the property of CommentAdded that was read last
    stream,     \* the SSHStream thread: position, stop flag, its client, the channel
    queue,      \* SSHStream._queue
    chan,       \* lines the remote command has written and nobody has read
    shist,      \* what happened to the SSHStream thread and to its consumer
    threads,    \* the attempts of send_upstream that run in one process
    groups      \* the names of the groups the review server has

vars ==
    <<label, conf, data, approvals, labels, ret, pc, exc, cmds, dirs, cwd, local, hist,
      call, stream, queue, chan, shist, threads, groups>>

(***************************************************************************)
(* Bounds of the model.                                                    *)
(***************************************************************************)
MaxValues == 3        \* approvals added to one Label
MaxCommentLen == 4    \* characters of a comment
MaxApprovals == 2     \* approvals in a list handed to is_upstream_approved
MaxPatchSets == 2     \* patchsets in a query reply

(***************************************************************************)
(* Python built-ins.                                                       *)
(***************************************************************************)
\* dict.get(key, default)
Get(d, k, default) == IF k \in DOMAIN d THEN d[k] ELSE default

\* min() and max() of a non-empty list of integers
RECURSIVE min(_)
min(s) ==
    IF Len(s) = 1 THEN s[1]
    ELSE LET m == min(Tail(s)) IN IF s[1] <= m THEN s[1] ELSE m

RECURSIVE max(_)
max(s) ==
    IF Len(s) = 1 THEN s[1]
    ELSE LET m == max(Tail(s)) IN IF s[1] >= m THEN s[1] ELSE m

\* int() of the decimal strings gerrit reports as approval values
int(s) ==
    CASE s = "-2" -> 0 - 2
      [] s = "-1" -> 0 - 1
      [] s = "0"  -> 0
      [] s = "1"  -> 1
      [] s = "2"  -> 2
      [] s = "3"  -> 3

\* the sequences over S of length at most n
SeqsUpTo(S, n) == UNION {[1..k -> S] : k \in 0..n}

LineBreaks == {"\n", "\r"}

\* str.splitlines(): the lines of s without their line breaks; "\r\n" is one
\* break, and a trailing break opens no further line
RECURSIVE splitlines(_)
splitlines(s) ==
    IF s = <<>> THEN <<>>
    ELSE LET brk == {i \in 1..Len(s) : s[i] \in LineBreaks}
         IN  IF brk = {} THEN <<s>>
             ELSE LET k == CHOOSE i \in brk : \A j \in brk : i <= j
                      e == IF s[k] = "\r" /\ k < Len(s) /\ s[k + 1] = "\n"
                           THEN k + 1 ELSE k
                  IN  <<SubSeq(s, 1, k - 1)>> \o splitlines(SubSeq(s, e + 1, Len(s)))

\* `t in s` for strings
In(t, s) ==
    \E i \in 0..(Len(s) - Len(t)) : SubSeq(s, i + 1, i + Len(t)) = t

(***************************************************************************)
(* class Approval                                                          *)
(***************************************************************************)
Approval_name(a) == Get(a, "type", "None")

Approval_value(a) == int(a["value"])

(***************************************************************************)
(* class Label                                                             *)
(***************************************************************************)
Label(name, min_, max_) ==
    [name |-> name, _min |-> min_, _max |-> max_, _values |-> <<>>]

\* Label.add_approval: the label after the call
add_approval(l, approval) ==
    [l EXCEPT !._values = Append(@, Approval_value(approval))]

\* approved() without the block check: a faulty variant of approved
approved_maxonly(l) ==
    IF l._values = <<>> THEN FALSE
    ELSE IF max(l._values) >= l._max THEN TRUE
    ELSE FALSE

\* approved() decided by the vote added last, a faulty variant
approved_lastvalue(l) ==
    IF l._values = <<>> THEN FALSE
    ELSE IF l._values[Len(l._values)] <= l._min THEN FALSE
    ELSE IF l._values[Len(l._values)] >= l._max THEN TRUE
    ELSE FALSE

\* Label.approved
approved(l) ==
    IF l._values = <<>> THEN FALSE
    ELSE IF min(l._values) <= l._min THEN FALSE
    ELSE IF max(l._values) >= l._max THEN TRUE
    ELSE FALSE

(***************************************************************************)
(* The inputs: configurations, events and approvals.                       *)
(***************************************************************************)
CodeReview == [name |-> "Code-Review", min |-> 0 - 2, max |-> 2]
CodeReview1 == [name |-> "Code-Review", min |-> 0 - 1, max |-> 1]
Verified == [name |-> "Verified", min |-> 0 - 1, max |-> 1]

\* lists of label requirements ('upstream-labels'); the last one names
\* Code-Review twice
LabelLists ==
    {<<>>, <<CodeReview>>, <<Verified>>, <<CodeReview, Verified>>,
     <<CodeReview, CodeReview1>>}

Trigger == <<"U", "R">>

GitConfig == [name |-> "Service", email |-> "service@example.org"]

\* project dictionaries: 'upstream' and 'upstream-labels' are optional keys
ProjectDicts(ll) ==
    {[name |-> "demo"], [name |-> "demo", upstream |-> FALSE],
     [name |-> "demo", upstream |-> TRUE]}
    \cup {[name |-> "demo", upstream |-> TRUE, upstream_labels |-> l] : l \in ll}

\* configurations over the label lists ll and the global label lists gl:
\* no project, one project, or the project declared twice
Confs(ll, gl) ==
    {[projects |-> ps, upstream_labels |-> g,
      upstream |-> [trigger |-> Trigger], git_config |-> GitConfig] :
        ps \in {<<>>} \cup {<<p>> : p \in ProjectDicts(ll)}
               \cup {<<[name |-> "demo", upstream |-> FALSE],
                       [name |-> "demo", upstream |-> TRUE]>>,
                     <<[name |-> "demo", upstream |-> TRUE, upstream_labels |-> <<>>],
                       [name |-> "demo", upstream |-> TRUE,
                        upstream_labels |-> <<CodeReview>>]>>},
        g \in gl}
    \cup {[upstream |-> [trigger |-> Trigger], git_config |-> GitConfig]}

ProjectNames == {"demo", "misc"}

Chars == {"U", "R", "\n", "\r"}

Comments == SeqsUpTo(Chars, MaxCommentLen)

\* the 'owner' record of a change: every key is optional
Owners ==
    {[name |-> "Owner", email |-> "owner@example.org"],
     [username |-> "owner", name |-> "Owner", email |-> "owner@example.org"],
     [username |-> "owner", name |-> "Owner"]}

\* the 'change' record of an event: 'topic' and 'owner' are optional keys
BaseChange(p) == [id |-> "I1", project |-> p, branch |-> "master"]

BaseChanges(projects) == {BaseChange(p) : p \in projects}

PatchSet == [number |-> "1", revision |-> "rev1"]

\* an event without a comment, and one for every comment
Events(changes, comments) ==
    {[change |-> c, patchSet |-> PatchSet] : c \in changes}
    \cup {[change |-> c, patchSet |-> PatchSet, comment |-> m] :
            c \in changes, m \in comments}

ApprovalNames == {"Code-Review", "Verified", "Other"}

ApprovalValues == {"-2", "-1", "0", "1", "2"}

Approvals == {[type |-> n, value |-> v] : n \in ApprovalNames, v \in ApprovalValues}

(***************************************************************************)
(* class CommentAdded: properties and gates                                *)
(***************************************************************************)
comment(d) == Get(d, "comment", <<>>)

change_id(d) == Get(d["change"], "id", "None")

patchset_id(d) == int(d["patchSet"]["number"])

project(d) == d["change"]["project"]

branch(d) == d["change"]["branch"]

revision(d) == d["patchSet"]["revision"]

\* the loop of is_upstream_project: the first project dictionary of the
\* list whose name matches, as a list of at most one element
RECURSIVE find_project(_, _)
find_project(ps, name) ==
    IF ps = <<>> THEN <<>>
    ELSE IF Get(Head(ps), "name", "None") = name THEN <<Head(ps)>>
    ELSE find_project(Tail(ps), name)

\* Project.upstream
Project_upstream(p) == Get(p, "upstream", FALSE)

\* is_upstream_project without the check of the upstream designation: a
\* faulty variant
is_upstream_project_found(c, d) ==
    find_project(Get(c, "projects", <<>>), project(d)) # <<>>

\* CommentAdded.is_upstream_project
is_upstream_project(c, d) ==
    LET found == find_project(Get(c, "projects", <<>>), project(d))
    IN  IF found = <<>> THEN FALSE
        ELSE IF ~Project_upstream(found[1]) THEN FALSE
        ELSE TRUE

\* is_upstream_indicated looking at the whole comment: a faulty variant
is_upstream_indicated_anyline(c, d) ==
    LET trigger == c["upstream"]["trigger"]
        lines == splitlines(comment(d))
    IN  IF lines = <<>> THEN "IndexError"
        ELSE IF In(trigger, comment(d)) THEN "True" ELSE "False"

\* CommentAdded.is_upstream_indicated: "True", "False" or the exception raised
is_upstream_indicated(c, d) ==
    LET trigger == c["upstream"]["trigger"]
        lines == splitlines(comment(d))
    IN  IF lines = <<>> THEN "IndexError"
        ELSE IF In(trigger, lines[1]) THEN "True" ELSE "False"

\* dict.update({k: v})
update(dict, k, v) ==
    [x \in DOMAIN dict \cup {k} |-> IF x = k THEN v ELSE dict[x]]

\* the loop of get_labels_for_upstream over the label dictionaries
RECURSIVE label_objs(_, _)
label_objs(objs, label_dicts) ==
    IF label_dicts = <<>> THEN objs
    ELSE LET l == Head(label_dicts)
         IN  label_objs(update(objs, l["name"], Label(l["name"], l["min"], l["max"])),
                        Tail(label_dicts))

\* get_labels_for_upstream taking the global labels whenever the project's
\* own list is empty or absent: a faulty variant
get_labels_for_upstream_or_global(c, project_name) ==
    LET found == find_project(Get(c, "projects", <<>>), project_name)
        own == /\ found # <<>>
               /\ "upstream_labels" \in DOMAIN found[1]
               /\ found[1]["upstream_labels"] # <<>>
        label_dicts == IF own THEN found[1]["upstream_labels"]
                       ELSE Get(c, "upstream_labels", <<>>)
    IN  label_objs(<<>>, label_dicts)

\* get_labels_for_upstream
get_labels_for_upstream(c, project_name) ==
    LET found == find_project(Get(c, "projects", <<>>), project_name)
        own == found # <<>> /\ "upstream_labels" \in DOMAIN found[1]
        label_dicts == IF own THEN found[1]["upstream_labels"]
                       ELSE Get(c, "upstream_labels", <<>>)
    IN  label_objs(<<>>, label_dicts)

\* the first loop of is_upstream_approved: the labels after the approvals
\* were added to the label of their name
RECURSIVE route(_, _)
route(ls, as) ==
    IF as = <<>> THEN ls
    ELSE LET a == Head(as)
             n == Approval_name(a)
         IN  route(IF n \in DOMAIN ls THEN update(ls, n, add_approval(ls[n], a)) ELSE ls,
                   Tail(as))

\* is_upstream_approved with any() for all(): a faulty variant
is_upstream_approved_any(c, d, as) ==
    LET ls == route(get_labels_for_upstream(c, project(d)), as)
    IN  \E n \in DOMAIN ls : approved(ls[n])

\* CommentAdded.is_upstream_approved
is_upstream_approved(c, d, as) ==
    LET ls == route(get_labels_for_upstream(c, project(d)), as)
    IN  \A n \in DOMAIN ls : approved(ls[n])

Bool(b) == IF b THEN "True" ELSE "False"

(***************************************************************************)
(* The state the pure specifications leave alone.                          *)
(***************************************************************************)
NoLabel == Label("Code-Review", 0 - 2, 2)
NoConf == [upstream |-> [trigger |-> Trigger], git_config |-> GitConfig]
NoEvent == [change |-> BaseChange("demo"), patchSet |-> PatchSet]
NoLocal ==
    [repo_dir |-> "unbound", old_cwd |-> "unbound", username |-> "unbound",
     name |-> "unbound", email |-> "unbound", out |-> "unbound",
     e_output |-> "unbound", upstream_url |-> "unbound"]
NoHist ==
    [entry_cwd |-> "/srv", fetch |-> "none", approved |-> "none", made |-> {},
     url |-> "none", reply |-> <<>>]
NoStream ==
    [pc |-> "idle", stop |-> FALSE, session |-> "none", open |-> 0, exited |-> FALSE]
NoSHist ==
    [stop_at |-> "none", exit |-> "none", after_stop |-> 0, waited |-> FALSE,
     emitted |-> 0, taken |-> <<>>, slept |-> 0, waits |-> 0,
     read |-> <<>>]

\* no property read, no SSHStream thread, no concurrent attempts
IdleRest ==
    /\ call = "none" /\ stream = NoStream /\ queue = <<>> /\ chan = <<>>
    /\ shist = NoSHist /\ threads = <<>> /\ groups = {}

restVars == <<call, stream, queue, chan, shist, threads, groups>>

IdleWorkflow ==
    /\ pc = "idle" /\ exc = "none" /\ cmds = <<>> /\ dirs = {}
    /\ cwd = "/srv" /\ local = NoLocal /\ hist = NoHist
    /\ IdleRest

workflowVars == <<pc, exc, cmds, dirs, cwd, local, hist, restVars>>

(***************************************************************************)
(* SpecLabel: one Label, approvals added one at a time, approved() called  *)
(* at any moment.                                                          *)
(***************************************************************************)
MinBounds == {0 - 2, 0 - 1, 0}
MaxBounds == {0, 1, 2}

InitLabel ==
    /\ label \in {Label("Code-Review", b[1], b[2]) :
                    b \in {x \in MinBounds \X MaxBounds : x[1] < x[2]}}
    /\ conf = NoConf /\ data = NoEvent /\ approvals = <<>> /\ labels = <<>>
    /\ ret = "none"
    /\ IdleWorkflow

Label_add_approval ==
    /\ Len(label._values) < MaxValues
    /\ \E a \in Approvals : label' = add_approval(label, a)
    /\ ret' = "None"
    /\ UNCHANGED <<conf, data, approvals, labels, workflowVars>>

Label_approved ==
    /\ ret' = Bool(approved(label))
    /\ UNCHANGED <<label, conf, data, approvals, labels, workflowVars>>

NextLabel == Label_add_approval \/ Label_approved

SpecLabel == InitLabel /\ [][NextLabel]_vars

(***************************************************************************)
(* SpecApproved: is_upstream_approved applied to a list of approvals.      *)
(***************************************************************************)
InitApproved ==
    /\ label = NoLabel
    /\ conf \in Confs(LabelLists, LabelLists)
    /\ data \in Events(BaseChanges(ProjectNames), {})
    /\ approvals \in SeqsUpTo(Approvals, MaxApprovals)
    /\ labels = <<>>
    /\ ret = "none"
    /\ IdleWorkflow

Call_is_upstream_approved ==
    /\ labels' = route(get_labels_for_upstream(conf, project(data)), approvals)
    /\ ret' = Bool(is_upstream_approved(conf, data, approvals))
    /\ UNCHANGED <<label, conf, data, approvals, workflowVars>>

NextApproved == Call_is_upstream_approved

SpecApproved == InitApproved /\ [][NextApproved]_vars

(***************************************************************************)
(* SpecTrigger: is_upstream_indicated applied to an event.                 *)
(***************************************************************************)
InitTrigger ==
    /\ label = NoLabel
    /\ conf = NoConf
    /\ data \in Events({NoEvent["change"]}, Comments)
    /\ approvals = <<>> /\ labels = <<>>
    /\ ret = "none"
    /\ IdleWorkflow

Call_is_upstream_indicated ==
    /\ ret = "none"
    /\ ret' = is_upstream_indicated(conf, data)
    /\ UNCHANGED <<label, conf, data, approvals, labels, workflowVars>>

NextTrigger == Call_is_upstream_indicated

SpecTrigger == InitTrigger /\ [][NextTrigger]_vars

(***************************************************************************)
(* CommentAdded.send_upstream, one step per external command.              *)
(***************************************************************************)
Downstream == [host |-> "down.example.org", port |-> "29418", username |-> "service"]
Upstream == [host |-> "up.example.org", port |-> "29418", username |-> "upservice"]

\* pipes.quote of a string that holds a character outside the safe set and
\* no single quote (every message of the workflow does): wrapped in quotes
quote(m) == "'" \o m \o "'"

\* str() of a patchset number
str(n) == CASE n = 1 -> "1" [] n = 2 -> "2" [] n = 3 -> "3"

\* 'gerrit review -m %s %s' % (pipes.quote(msg), self.revision)
review_cmd(msg, d) == "gerrit review -m " \o quote(msg) \o " " \o revision(d)

\* the query of get_approvals
approvals_cmd(d) ==
    "gerrit query change:" \o change_id(d) \o " branch:" \o branch(d)
        \o " project:" \o project(d) \o " --all-approvals limit:1 --format JSON"

\* the query of get_upstream_url
url_cmd(d) ==
    "gerrit query change:" \o change_id(d) \o " branch:" \o branch(d)
        \o " project:" \o project(d) \o " --format JSON"

\* "ssh://%s@%s:%s/%s"
remote_url(username, remote, d) ==
    "ssh://" \o username \o "@" \o remote["host"] \o ":" \o remote["port"]
        \o "/" \o project(d)

download_cmd(d) ==
    "git-review -r downstream -d " \o change_id(d) \o "," \o str(patchset_id(d))

upload_cmd(d) ==
    "git-review -R -y -r upstream " \o branch(d) \o " -t " \o d["change"]["topic"]

\* a faulty variant of the rejection message, naming a label
NotApprovedMsg_label == "Could not send to upstream: Code-Review not approved."
NotApprovedMsg == "Could not send to upstream: One or more labels not approved."
CouldNotSendMsg(output) == "Could not send to upstream:\n" \o output
ErrorRunningMsg == "Could not send to upstream: Error running git-review"
SentMsg(url) == "Sent to upstream: " \o url

\* os.path.join(os.path.abspath(os.path.expanduser('~/tmp')), str(uuid4()))
Uuids == {"u1", "u2"}
ScratchDir(u) == "/home/gerrit/tmp/" \o u

\* what git-review prints
Outputs == {"fatal: change not found"}

\* one entry of the command log
Cmd(on, c, st) == [on |-> on, cmd |-> c, cwd |-> cwd, status |-> st]

\* exit statuses of a command: "0", non-zero, or the call raised
Statuses == {"0", "1", "raise"}

(***************************************************************************)
(* The reply of the approvals query: patchsets, each with a number and,    *)
(* when it has approvals, an 'approvals' list.                             *)
(***************************************************************************)
Vote(n, v) == [type |-> n, value |-> v]

PatchApprovals ==
    {<<>>, <<Vote("Code-Review", "2")>>, <<Vote("Code-Review", "-2")>>,
     <<Vote("Code-Review", "1")>>, <<Vote("Verified", "1")>>,
     <<Vote("Other", "2")>>, <<Vote("Code-Review", "2"), Vote("Verified", "1")>>}

\* a patchset entry has a number and approvals; either key may be missing
PatchSets ==
    {[number |-> n] : n \in {"1", "2"}}
    \cup {[number |-> n, approvals |-> as] : n \in {"1", "2"}, as \in PatchApprovals}
    \cup {[approvals |-> <<>>]}

Replies == SeqsUpTo(PatchSets, MaxPatchSets)

\* the loop of get_approvals without the comparison of patchset numbers, a
\* faulty variant: the approvals of every patchset are collected
RECURSIVE collect_all(_, _, _)
collect_all(patchsets, number, acc) ==
    IF patchsets = <<>> THEN [approvals |-> acc, failed |-> FALSE]
    ELSE LET ps == Head(patchsets)
         IN  IF "number" \notin DOMAIN ps
             THEN [approvals |-> acc, failed |-> TRUE]
             ELSE IF "approvals" \in DOMAIN ps
                  THEN collect_all(Tail(patchsets), number, acc \o ps["approvals"])
                  ELSE [approvals |-> acc, failed |-> TRUE]

\* the loop of get_approvals over json_['patchSets']: the approvals
\* collected, and whether a KeyError (an entry without 'number', an entry
\* of the event's patchset without 'approvals') stopped the loop
RECURSIVE collect(_, _, _)
collect(patchsets, number, acc) ==
    IF patchsets = <<>> THEN [approvals |-> acc, failed |-> FALSE]
    ELSE LET ps == Head(patchsets)
         IN  IF "number" \notin DOMAIN ps
             THEN [approvals |-> acc, failed |-> TRUE]
             ELSE IF int(ps["number"]) = number
             THEN IF "approvals" \in DOMAIN ps
                  THEN collect(Tail(patchsets), number, acc \o ps["approvals"])
                  ELSE [approvals |-> acc, failed |-> TRUE]
             ELSE collect(Tail(patchsets), number, acc)

(***************************************************************************)
(* SpecSend: one run of send_upstream on an event.                         *)
(***************************************************************************)
SendComments ==
    {<<>>, <<"\n">>, <<"R">>, <<"U", "R">>, <<"R", "U", "R", "\n">>,
     <<"U", "R", "\n", "R">>, <<"R", "\n", "U", "R">>, <<"\n", "U", "R">>,
     <<"U", "\n", "R">>, <<"\r", "\n", "U", "R">>}

SendLabelLists == {<<>>, <<CodeReview>>, <<CodeReview, Verified>>}

SendChanges(projects) ==
    BaseChanges(projects)
    \cup {BaseChange(p) @@ [topic |-> "topic", owner |-> o] :
            p \in projects, o \in Owners}
    \cup {BaseChange(p) @@ [owner |-> o] : p \in projects, o \in Owners}

InitSend ==
    /\ label = NoLabel
    /\ conf \in Confs(SendLabelLists, {<<>>, <<CodeReview>>})
    /\ data \in Events(SendChanges(ProjectNames), SendComments)
    /\ approvals = <<>> /\ labels = <<>>
    /\ ret = "none"
    /\ pc = "start" /\ exc = "none" /\ cmds = <<>> /\ dirs = {}
    /\ cwd = "/srv" /\ local = NoLocal /\ hist = NoHist
    /\ IdleRest

pureVars == <<label, conf, data, ret, restVars>>

\* send_upstream, lines 590-592: the project gate
ProjectGate ==
    /\ pc = "start"
    /\ pc' = IF is_upstream_project(conf, data) THEN "trigger" ELSE "returned"
    /\ UNCHANGED <<pureVars, approvals, labels, exc, cmds, dirs, cwd, local, hist>>

\* send_upstream, lines 594-599: the trigger gate
TriggerGate ==
    /\ pc = "trigger"
    /\ LET r == is_upstream_indicated(conf, data)
       IN  /\ pc' = CASE r = "True" -> "fetch"
                      [] r = "False" -> "returned"
                      [] OTHER -> "raised"
           /\ exc' = IF r \in {"True", "False"} THEN exc ELSE r
    /\ UNCHANGED <<pureVars, approvals, labels, cmds, dirs, cwd, local, hist>>

\* get_approvals without the check of the exit status, a faulty variant:
\* what a failed query printed is parsed like a reply
get_approvals_unchecked ==
    /\ pc = "fetch"
    /\ \E f \in {<<"raise", "exception">>, <<"1", "nonzero">>, <<"0", "unparsable">>,
                 <<"0", "ok">>},
          reply \in Replies :
        /\ cmds' = Append(cmds, Cmd("downstream", approvals_cmd(data), f[1]))
        /\ hist' = [hist EXCEPT !.fetch = f[2]]
        /\ approvals' = collect(reply, patchset_id(data), <<>>)["approvals"]
    /\ pc' = "evaluate"
    /\ UNCHANGED <<pureVars, labels, exc, dirs, cwd, local>>

\* get_approvals: the query raises, exits non-zero, prints what does not
\* parse, or prints a change record
get_approvals ==
    /\ pc = "fetch"
    /\ \/ /\ \E f \in {<<"raise", "exception">>, <<"1", "nonzero">>, <<"0", "unparsable">>} :
                /\ cmds' = Append(cmds, Cmd("downstream", approvals_cmd(data), f[1]))
                /\ hist' = [hist EXCEPT !.fetch = f[2]]
          /\ approvals' = <<>>
       \/ \E reply \in Replies :
            LET got == collect(reply, patchset_id(data), <<>>)
            IN  /\ cmds' = Append(cmds, Cmd("downstream", approvals_cmd(data), "0"))
                /\ approvals' = got["approvals"]
                /\ hist' = [hist EXCEPT !.fetch = IF got["failed"] THEN "malformed" ELSE "ok"]
    /\ pc' = "evaluate"
    /\ UNCHANGED <<pureVars, labels, exc, dirs, cwd, local>>

\* the evaluation gate without its return, a faulty variant: the rejection
\* is commented and the run goes on
EvaluationGate_no_return ==
    /\ pc = "evaluate"
    /\ labels' = route(get_labels_for_upstream(conf, project(data)), approvals)
    /\ IF is_upstream_approved(conf, data, approvals)
       THEN /\ pc' = "mkdir"
            /\ hist' = [hist EXCEPT !.approved = "True"]
            /\ UNCHANGED <<cmds, exc>>
       ELSE /\ hist' = [hist EXCEPT !.approved = "False"]
            /\ \E st \in Statuses :
                /\ cmds' = Append(cmds, Cmd("downstream", review_cmd(NotApprovedMsg, data), st))
                /\ pc' = IF st = "raise" THEN "raised" ELSE "mkdir"
                /\ exc' = IF st = "raise" THEN "SSHException" ELSE exc
    /\ UNCHANGED <<pureVars, approvals, dirs, cwd, local>>

\* send_upstream, lines 604-611: the evaluation gate and its comment
EvaluationGate ==
    /\ pc = "evaluate"
    /\ labels' = route(get_labels_for_upstream(conf, project(data)), approvals)
    /\ IF is_upstream_approved(conf, data, approvals)
       THEN /\ pc' = "mkdir"
            /\ hist' = [hist EXCEPT !.approved = "True"]
            /\ UNCHANGED <<cmds, exc>>
       ELSE /\ hist' = [hist EXCEPT !.approved = "False"]
            /\ \E st \in Statuses :
                /\ cmds' = Append(cmds, Cmd("downstream", review_cmd(NotApprovedMsg, data), st))
                /\ pc' = IF st = "raise" THEN "raised" ELSE "returned"
                /\ exc' = IF st = "raise" THEN "SSHException" ELSE exc
    /\ UNCHANGED <<pureVars, approvals, dirs, cwd, local>>

\* os.makedirs written inside the inner try block, a faulty variant: its
\* error is answered with the failure comment and does not leave the call
MakeScratch_in_try ==
    /\ pc = "mkdir"
    /\ \E u \in Uuids :
        /\ ScratchDir(u) \notin dirs
        /\ \/ /\ dirs' = dirs \cup {ScratchDir(u)}
              /\ local' = [local EXCEPT !.repo_dir = ScratchDir(u), !.old_cwd = cwd]
              /\ hist' = [hist EXCEPT !.made = @ \cup {ScratchDir(u)}]
              /\ pc' = "chdir"
           \/ /\ local' = [local EXCEPT !.old_cwd = cwd]
              /\ pc' = "except_exception"
              /\ UNCHANGED <<dirs, hist>>
    /\ UNCHANGED <<pureVars, approvals, labels, exc, cmds, cwd>>

\* send_upstream, lines 616-632: the scratch directory is made, or
\* os.makedirs raises; the working directory is saved
MakeScratch ==
    /\ pc = "mkdir"
    /\ \E u \in Uuids :
        /\ ScratchDir(u) \notin dirs
        /\ \/ /\ dirs' = dirs \cup {ScratchDir(u)}
              /\ local' = [local EXCEPT !.repo_dir = ScratchDir(u), !.old_cwd = cwd]
              /\ hist' = [hist EXCEPT !.made = @ \cup {ScratchDir(u)}]
              /\ pc' = "chdir"
              /\ UNCHANGED exc
           \/ /\ exc' = "OSError"
              /\ pc' = "raised"
              /\ UNCHANGED <<dirs, local, hist>>
    /\ UNCHANGED <<pureVars, approvals, labels, cmds, cwd>>

\* send_upstream, line 636
Chdir ==
    /\ pc = "chdir"
    /\ cwd' = local["repo_dir"]
    /\ pc' = "init"
    /\ UNCHANGED <<pureVars, approvals, labels, exc, cmds, dirs, local, hist>>

\* a git command of the outer try block: on failure the exception leaves
\* through the finally clause
OuterGit(at, c, next) ==
    /\ pc = at
    /\ \E st \in Statuses :
        /\ cmds' = Append(cmds, Cmd("local", c, st))
        /\ pc' = IF st = "0" THEN next ELSE "finally"
        /\ exc' = CASE st = "0" -> exc
                    [] st = "1" -> "CalledProcessError"
                    [] st = "raise" -> "OSError"
    /\ UNCHANGED <<pureVars, approvals, labels, dirs, cwd, local, hist>>

\* send_upstream, line 639
GitInit == OuterGit("init", "git init", "remote_downstream")

\* send_upstream, lines 642-646
AddRemoteDownstream ==
    OuterGit("remote_downstream",
             "git remote add downstream "
                \o remote_url(Downstream["username"], Downstream, data),
             "identity")

\* the fallback applied to the username alone, a faulty variant: the name
\* and the email stay the owner's
ResolveIdentity_username_only ==
    /\ pc = "identity"
    /\ IF "owner" \notin DOMAIN data["change"]
       THEN /\ exc' = "KeyError"
            /\ pc' = "finally"
            /\ UNCHANGED local
       ELSE LET owner == data["change"]["owner"]
                username == Get(owner, "username", "None")
            IN  /\ local' =
                     [local EXCEPT !.username = IF username = "None"
                                                THEN Upstream["username"]
                                                ELSE username,
                                   !.name = Get(owner, "name", "None"),
                                   !.email = Get(owner, "email", "None")]
                /\ pc' = "remote_upstream"
                /\ UNCHANGED exc
    /\ UNCHANGED <<pureVars, approvals, labels, cmds, dirs, cwd, hist>>

\* send_upstream, lines 652-661: the identity of the upstream push
ResolveIdentity ==
    /\ pc = "identity"
    /\ IF "owner" \notin DOMAIN data["change"]
       THEN /\ exc' = "KeyError"
            /\ pc' = "finally"
            /\ UNCHANGED local
       ELSE LET owner == data["change"]["owner"]
                username == Get(owner, "username", "None")
            IN  /\ local' =
                     IF username = "None"
                     THEN [local EXCEPT !.username = Upstream["username"],
                                        !.name = conf["git_config"]["name"],
                                        !.email = conf["git_config"]["email"]]
                     ELSE [local EXCEPT !.username = username,
                                        !.name = Get(owner, "name", "None"),
                                        !.email = Get(owner, "email", "None")]
                /\ pc' = "remote_upstream"
                /\ UNCHANGED exc
    /\ UNCHANGED <<pureVars, approvals, labels, cmds, dirs, cwd, hist>>

\* send_upstream, lines 663-666
AddRemoteUpstream ==
    OuterGit("remote_upstream",
             "git remote add upstream " \o remote_url(local["username"], Upstream, data),
             "config_email")


\* a command of the inner try block: a non-zero exit is handled by the
\* CalledProcessError clause, any other exception by the Exception clause
InnerFailure(st, output) ==
    /\ pc' = IF st = "1" THEN "except_cpe" ELSE "except_exception"
    /\ local' = IF st = "1" THEN [local EXCEPT !.e_output = output] ELSE local

\* git.set_config runs check_call, whose CalledProcessError has no output;
\* " ".join(args) in git_cmd raises TypeError on a value that is None,
\* before any command runs
SetConfig(at, key, value, next) ==
    /\ pc = at
    /\ IF value = "None"
       THEN /\ InnerFailure("raise", "None")
            /\ UNCHANGED cmds
       ELSE \E st \in Statuses :
            /\ cmds' = Append(cmds, Cmd("local", "git config " \o key \o " " \o value, st))
            /\ IF st = "0"
               THEN pc' = next /\ UNCHANGED local
               ELSE InnerFailure(st, "None")
    /\ UNCHANGED <<pureVars, approvals, labels, exc, dirs, cwd, hist>>

\* send_upstream, line 674
SetConfigEmail == SetConfig("config_email", "user.email", local["email"], "config_name")

\* send_upstream, line 675
SetConfigName == SetConfig("config_name", "user.name", local["name"], "download")

\* the download run without check_output's check of the exit status: a
\* faulty variant
Download_unchecked ==
    /\ pc = "download"
    /\ \E st \in Statuses, output \in Outputs :
        /\ cmds' = Append(cmds, Cmd("local", download_cmd(data), st))
        /\ IF st \in {"0", "1"}
           THEN pc' = "upload" /\ local' = [local EXCEPT !.out = output]
           ELSE InnerFailure(st, output)
    /\ UNCHANGED <<pureVars, approvals, labels, exc, dirs, cwd, hist>>

\* send_upstream, lines 678-685: git-review downloads the change
Download ==
    /\ pc = "download"
    /\ \E st \in Statuses, output \in Outputs :
        /\ cmds' = Append(cmds, Cmd("local", download_cmd(data), st))
        /\ IF st = "0"
           THEN pc' = "upload" /\ local' = [local EXCEPT !.out = output]
           ELSE InnerFailure(st, output)
    /\ UNCHANGED <<pureVars, approvals, labels, exc, dirs, cwd, hist>>

\* an upload that leaves the -t option out when the change has no topic, a
\* faulty variant
Upload_topic_optional ==
    /\ pc = "upload"
    /\ \E st \in Statuses, output \in Outputs :
        /\ cmds' = Append(cmds, Cmd("local",
                        IF "topic" \in DOMAIN data["change"] THEN upload_cmd(data)
                        ELSE "git-review -R -y -r upstream " \o branch(data), st))
        /\ IF st = "0"
           THEN pc' = "url" /\ local' = [local EXCEPT !.out = output]
           ELSE InnerFailure(st, output)
    /\ UNCHANGED <<pureVars, approvals, labels, exc, dirs, cwd, hist>>

\* send_upstream, lines 688-695: git-review uploads the change; building
\* the arguments reads self.topic
Upload ==
    /\ pc = "upload"
    /\ IF "topic" \notin DOMAIN data["change"]
       THEN /\ pc' = "except_exception"
            /\ UNCHANGED <<cmds, local>>
       ELSE \E st \in Statuses, output \in Outputs :
            /\ cmds' = Append(cmds, Cmd("local", upload_cmd(data), st))
            /\ IF st = "0"
               THEN pc' = "url" /\ local' = [local EXCEPT !.out = output]
               ELSE InnerFailure(st, output)
    /\ UNCHANGED <<pureVars, approvals, labels, exc, dirs, cwd, hist>>

\* "https://%s/#q,%s,n,z" % (upstream.host, self.change_id)
backup_url(d) == "https://" \o Upstream["host"] \o "/#q," \o change_id(d) \o ",n,z"

\* the url of the change that the upstream query found
FoundUrl == "https://up.example.org/7"

\* get_upstream_url: the query raises, or its output does not parse or has
\* no 'url' (backup url); it exits non-zero or its output holds the stats
\* record only (return None); or it finds the change
get_upstream_url ==
    /\ pc = "url"
    /\ \E r \in {<<"raise", "raise", backup_url(data)>>,
                 <<"1", "nonzero", "None">>,
                 <<"0", "unparsable", backup_url(data)>>,
                 <<"0", "nomatch", "None">>,
                 <<"0", "found", FoundUrl>>} :
        /\ cmds' = Append(cmds, Cmd("upstream", url_cmd(data), r[1]))
        /\ hist' = [hist EXCEPT !.url = r[2]]
        /\ local' = [local EXCEPT !.upstream_url = r[3]]
    /\ pc' = "comment"
    /\ UNCHANGED <<pureVars, approvals, labels, exc, dirs, cwd>>

\* send_upstream, lines 699-703: the comment of a successful upload
PostSuccess ==
    /\ pc = "comment"
    /\ \E st \in Statuses :
        /\ cmds' = Append(cmds, Cmd("downstream",
                                    review_cmd(SentMsg(local["upstream_url"]), data), st))
        /\ pc' = IF st = "raise" THEN "except_exception" ELSE "finally"
    /\ UNCHANGED <<pureVars, approvals, labels, exc, dirs, cwd, local, hist>>

\* send_upstream, lines 705-711: except subprocess.CalledProcessError; the
\* last line reads the local variable out
HandleCalledProcessError ==
    /\ pc = "except_cpe"
    /\ \E st \in Statuses :
        /\ cmds' = Append(cmds, Cmd("downstream",
                                    review_cmd(CouldNotSendMsg(local["e_output"]), data), st))
        /\ exc' = CASE st = "raise" -> "SSHException"
                    [] st # "raise" /\ local["out"] = "unbound" -> "UnboundLocalError"
                    [] OTHER -> exc
    /\ pc' = "finally"
    /\ UNCHANGED <<pureVars, approvals, labels, dirs, cwd, local, hist>>

\* send_upstream, lines 713-718: except Exception
HandleException ==
    /\ pc = "except_exception"
    /\ \E st \in Statuses :
        /\ cmds' = Append(cmds, Cmd("downstream", review_cmd(ErrorRunningMsg, data), st))
        /\ exc' = IF st = "raise" THEN "SSHException" ELSE exc
    /\ pc' = "finally"
    /\ UNCHANGED <<pureVars, approvals, labels, dirs, cwd, local, hist>>

\* the cleanup written after the try block instead of in a finally
\* clause, a faulty variant: an exception in flight skips it
Finally_skipped_on_exception ==
    /\ pc = "finally"
    /\ cwd' = IF exc = "none" THEN local["old_cwd"] ELSE cwd
    /\ dirs' = IF exc = "none" THEN dirs \ {local["repo_dir"]} ELSE dirs
    /\ pc' = IF exc = "none" THEN "returned" ELSE "raised"
    /\ UNCHANGED <<pureVars, approvals, labels, exc, cmds, local, hist>>

\* send_upstream, lines 720-725: the finally clause, then the return or
\* the exception in flight
Finally ==
    /\ pc = "finally"
    /\ cwd' = local["old_cwd"]
    /\ dirs' = dirs \ {local["repo_dir"]}
    /\ pc' = IF exc = "none" THEN "returned" ELSE "raised"
    /\ UNCHANGED <<pureVars, approvals, labels, exc, cmds, local, hist>>

NextSend ==
    \/ ProjectGate
    \/ TriggerGate
    \/ get_approvals
    \/ EvaluationGate
    \/ MakeScratch
    \/ Chdir
    \/ GitInit
    \/ AddRemoteDownstream
    \/ ResolveIdentity
    \/ AddRemoteUpstream
    \/ SetConfigEmail
    \/ SetConfigName
    \/ Download
    \/ Upload
    \/ get_upstream_url
    \/ PostSuccess
    \/ HandleCalledProcessError
    \/ HandleException
    \/ Finally

SpecSend == InitSend /\ [][NextSend]_vars

\* send_upstream has returned or raised
Ended == pc \in {"returned", "raised"}

(***************************************************************************)
(* class SSHStream: the thread body run() and the consumer's get_event.    *)
(* stream.pc is the position of run(): "connecting" (top of the outer      *)
(* loop, before client.connect), "streaming" (the condition of the inner   *)
(* loop), "recv" (recv_ready and readline), "stopcheck" (the stop check of *)
(* the inner loop), "closing" (the finally clause), "check" (the stop      *)
(* check of the outer loop), "sleeping" (time.sleep), "terminated".        *)
(* stream.open counts the sessions that are connected and not closed.      *)
(***************************************************************************)
MaxLines == 2     \* lines the remote command writes in all
MaxGets == 2      \* calls of get_event
MaxWaits == 2     \* backoff waits counted in shist.waits
BackoffSeconds == 5

EventA == "{\"type\": \"comment-added\"}"
EventB == "{\"type\": \"ref-updated\"}"

\* the lines gerrit stream-events may deliver: two events and a line that
\* is not JSON
Lines == {EventA, EventB, "Connection reset by peer"}

\* json.loads: the parsed event, or ValueError
json_loads(line) ==
    CASE line = EventA -> "event comment-added"
      [] line = EventB -> "event ref-updated"
      [] OTHER -> "ValueError"

sendState ==
    <<label, conf, data, approvals, labels, pc, exc, cmds, dirs, cwd, local, hist,
      call, threads, groups>>

InitStream ==
    /\ label = NoLabel /\ conf = NoConf /\ data = NoEvent
    /\ approvals = <<>> /\ labels = <<>> /\ ret = "none"
    /\ pc = "idle" /\ exc = "none" /\ cmds = <<>> /\ dirs = {}
    /\ cwd = "/srv" /\ local = NoLocal /\ hist = NoHist
    /\ call = "none" /\ threads = <<>> /\ groups = {}
    /\ stream = [NoStream EXCEPT !.pc = "connecting"]
    /\ queue = <<>> /\ chan = <<>>
    /\ shist = NoSHist

\* StoppableThread.stop(): another thread sets the stop flag
Stop ==
    /\ ~stream.stop
    /\ stream' = [stream EXCEPT !.stop = TRUE]
    /\ shist' = [shist EXCEPT !.stop_at = stream.pc]
    /\ UNCHANGED <<sendState, ret, queue, chan>>

\* the remote command writes a line to the channel of the open session
Emit ==
    /\ stream.session = "open" /\ ~stream.exited
    /\ shist.emitted < MaxLines
    /\ \E l \in Lines : chan' = Append(chan, l)
    /\ shist' = [shist EXCEPT !.emitted = @ + 1]
    /\ UNCHANGED <<sendState, ret, queue, stream>>

\* the remote command ends: its exit status becomes ready
RemoteExit ==
    /\ stream.session = "open" /\ ~stream.exited
    /\ stream' = [stream EXCEPT !.exited = TRUE]
    /\ UNCHANGED <<sendState, ret, queue, chan, shist>>

\* run, lines 86-95: connect, set_keepalive and exec_command; an exception
\* is raised before the connection exists, or after it, or not at all
Connect ==
    /\ stream.pc = "connecting"
    /\ \E r \in {"refused", "exec_failed", "ok"} :
        /\ stream' =
             CASE r = "refused" -> [stream EXCEPT !.pc = "closing"]
               [] r = "exec_failed" ->
                    [stream EXCEPT !.pc = "closing", !.session = "open",
                                   !.open = @ + 1, !.exited = FALSE]
               [] OTHER ->
                    [stream EXCEPT !.pc = "streaming", !.session = "open",
                                   !.open = @ + 1, !.exited = FALSE]
        /\ shist' = [shist EXCEPT !.exit = IF r = "ok" THEN "none" ELSE "connect_error"]
    /\ chan' = <<>>
    /\ UNCHANGED <<sendState, ret, queue>>

\* run, line 98: while not stdout.channel.exit_status_ready()
Streaming ==
    /\ stream.pc = "streaming"
    /\ stream' = [stream EXCEPT !.pc = IF stream.exited THEN "closing" ELSE "recv"]
    /\ shist' = [shist EXCEPT !.exit = IF stream.exited THEN "end" ELSE @]
    /\ UNCHANGED <<sendState, ret, queue, chan>>

\* a line that is read goes to the front of the queue, a faulty variant
Recv_front ==
    /\ stream.pc = "recv"
    /\ IF chan # <<>>
       THEN /\ queue' = <<Head(chan)>> \o queue
            /\ chan' = Tail(chan)
            /\ shist' = [shist EXCEPT !.read = Append(@, Head(chan))]
       ELSE UNCHANGED <<queue, chan, shist>>
    /\ stream' = [stream EXCEPT !.pc = "stopcheck"]
    /\ UNCHANGED <<sendState, ret>>

\* run, lines 99-100: a line that is ready is read and queued
Recv ==
    /\ stream.pc = "recv"
    /\ IF chan # <<>>
       THEN /\ queue' = Append(queue, Head(chan))
            /\ chan' = Tail(chan)
            /\ shist' = [shist EXCEPT !.read = Append(@, Head(chan))]
       ELSE UNCHANGED <<queue, chan, shist>>
    /\ stream' = [stream EXCEPT !.pc = "stopcheck"]
    /\ UNCHANGED <<sendState, ret>>

\* the inner loop without its stop check, a faulty variant
InnerStopCheck_absent ==
    /\ stream.pc = "stopcheck"
    /\ stream' = [stream EXCEPT !.pc = "streaming"]
    /\ UNCHANGED <<sendState, ret, queue, chan, shist>>

\* run, lines 103-104: if self._stop.isSet(): break
InnerStopCheck ==
    /\ stream.pc = "stopcheck"
    /\ stream' = [stream EXCEPT !.pc = IF stream.stop THEN "closing" ELSE "streaming"]
    /\ shist' = [shist EXCEPT !.exit = IF stream.stop THEN "break" ELSE @]
    /\ UNCHANGED <<sendState, ret, queue, chan>>

\* the try statement without its except clause, a faulty variant: the
\* exception closes the session in the finally clause and ends the thread
StreamError_uncaught ==
    /\ stream.pc \in {"streaming", "recv"}
    /\ stream' = [stream EXCEPT !.pc = "terminated", !.session = "closed",
                                !.open = @ - 1]
    /\ chan' = <<>>
    /\ shist' = [shist EXCEPT !.exit = "error"]
    /\ UNCHANGED <<sendState, ret, queue>>

\* run, lines 106-107: a call on the channel raises while streaming
StreamError ==
    /\ stream.pc \in {"streaming", "recv"}
    /\ stream' = [stream EXCEPT !.pc = "closing"]
    /\ shist' = [shist EXCEPT !.exit = "error"]
    /\ UNCHANGED <<sendState, ret, queue, chan>>

\* client.close() written in the except clause instead of the finally
\* clause, a faulty variant: a loop that ends without exception keeps its
\* session
Close_on_exception_only ==
    /\ stream.pc = "closing"
    /\ LET closes == stream.session = "open" /\ shist.exit \in {"connect_error", "error"}
       IN  stream' = [stream EXCEPT !.pc = "check",
                                    !.session = IF closes THEN "closed" ELSE @,
                                    !.open = IF closes THEN @ - 1 ELSE @]
    /\ chan' = <<>>
    /\ shist' = [shist EXCEPT !.waited = FALSE]
    /\ UNCHANGED <<sendState, ret, queue>>

\* run, lines 109-110: finally: client.close(); what the channel still
\* held goes with the session
Close ==
    /\ stream.pc = "closing"
    /\ stream' = [stream EXCEPT !.pc = "check",
                                !.session = IF @ = "open" THEN "closed" ELSE @,
                                !.open = IF stream.session = "open" THEN @ - 1 ELSE @]
    /\ chan' = <<>>
    /\ shist' = [shist EXCEPT !.waited = FALSE]
    /\ UNCHANGED <<sendState, ret, queue>>

\* the stop check of the outer loop after the wait instead of before it, a
\* faulty variant
CheckStop_after_wait ==
    /\ stream.pc = "check"
    /\ stream' = [stream EXCEPT !.pc = IF stream.stop /\ shist.waited
                                       THEN "terminated" ELSE "sleeping"]
    /\ UNCHANGED <<sendState, ret, queue, chan, shist>>

\* an outer loop that gives up after a disconnect, a faulty variant
CheckStop_gives_up ==
    /\ stream.pc = "check"
    /\ stream' = [stream EXCEPT !.pc = "terminated"]
    /\ UNCHANGED <<sendState, ret, queue, chan, shist>>

\* run, lines 112-114: if self._stop.isSet(): break
CheckStop ==
    /\ stream.pc = "check"
    /\ stream' = [stream EXCEPT !.pc = IF stream.stop THEN "terminated" ELSE "sleeping"]
    /\ UNCHANGED <<sendState, ret, queue, chan, shist>>

\* a wait that grows with the number of waits already made, a faulty variant
Backoff_growing ==
    /\ stream.pc = "sleeping"
    /\ stream' = [stream EXCEPT !.pc = "connecting", !.session = "none"]
    /\ shist' = [shist EXCEPT !.waited = TRUE,
                              !.after_stop = IF stream.stop THEN @ + 1 ELSE @,
                              !.slept = BackoffSeconds * (shist.waits + 1),
                              !.waits = IF @ < MaxWaits THEN @ + 1 ELSE @]
    /\ UNCHANGED <<sendState, ret, queue, chan>>

\* run, lines 116-118 and 86-90: time.sleep(5) ends and the outer loop
\* starts over with a new client
Backoff ==
    /\ stream.pc = "sleeping"
    /\ stream' = [stream EXCEPT !.pc = "connecting", !.session = "none"]
    /\ shist' = [shist EXCEPT !.waited = TRUE,
                              !.after_stop = IF stream.stop THEN @ + 1 ELSE @,
                              !.slept = BackoffSeconds,
                              !.waits = IF @ < MaxWaits THEN @ + 1 ELSE @]
    /\ UNCHANGED <<sendState, ret, queue, chan>>

\* get_event that looks at the head of the queue and removes it only after
\* it parsed, a faulty variant
get_event_keeps_invalid ==
    /\ Len(shist.taken) < MaxGets
    /\ shist' = [shist EXCEPT !.taken = Append(@, IF queue = <<>> THEN "Queue.Empty"
                                                  ELSE Head(queue))]
    /\ IF queue = <<>>
       THEN ret' = "None" /\ UNCHANGED queue
       ELSE LET event == json_loads(Head(queue))
            IN  /\ queue' = IF event = "ValueError" THEN queue ELSE Tail(queue)
                /\ ret' = IF event = "ValueError" THEN "None" ELSE event
    /\ UNCHANGED <<sendState, stream, chan>>

\* get_event, lines 56-72: get_nowait removes the head of the queue;
\* Queue.Empty and ValueError are both answered with None
get_event ==
    /\ Len(shist.taken) < MaxGets
    /\ shist' = [shist EXCEPT !.taken = Append(@, IF queue = <<>> THEN "Queue.Empty"
                                                  ELSE Head(queue))]
    /\ IF queue = <<>>
       THEN ret' = "None" /\ UNCHANGED queue
       ELSE LET event == json_loads(Head(queue))
            IN  /\ queue' = Tail(queue)
                /\ ret' = IF event = "ValueError" THEN "None" ELSE event
    /\ UNCHANGED <<sendState, stream, chan>>

\* the steps of the thread
RunStep ==
    \/ Connect
    \/ Streaming
    \/ Recv
    \/ InnerStopCheck
    \/ StreamError
    \/ Close
    \/ CheckStop
    \/ Backoff

NextStream ==
    \/ RunStep
    \/ Stop
    \/ Emit
    \/ RemoteExit
    \/ get_event

SpecStream == InitStream /\ [][NextStream]_vars

\* the thread is scheduled: whenever it has a step to take it takes one
SpecStreamFair == SpecStream /\ WF_vars(RunStep)

(***************************************************************************)
(* SpecConcurrent: two attempts of send_upstream, for different changes,   *)
(* run as two threads of one process, from the scratch directory onwards   *)
(* (their gates have passed).  The threads share what the process has one  *)
(* of: the working directory cwd and the file system dirs.  threads[t]     *)
(* holds the position and the local variables of thread t, in ran_in the   *)
(* working directories its local commands have run in, and in uploaded     *)
(* whether its upload command has run.                                     *)
(***************************************************************************)
ThreadIds == {"A", "B"}

ThreadEvent(t) ==
    [change |-> [id |-> IF t = "A" THEN "I1" ELSE "I2", project |-> "demo",
                 branch |-> "master", topic |-> "topic",
                 owner |-> [username |-> "owner", name |-> "Owner",
                            email |-> "owner@example.org"]],
     patchSet |-> PatchSet]

\* the local commands of send_upstream in the order of lines 639-695
LocalCommands(d) ==
    <<"git init",
      "git remote add downstream " \o remote_url(Downstream["username"], Downstream, d),
      "git remote add upstream " \o remote_url(d["change"]["owner"]["username"], Upstream, d),
      "git config user.email " \o d["change"]["owner"]["email"],
      "git config user.name " \o d["change"]["owner"]["name"],
      download_cmd(d),
      upload_cmd(d)>>

NoThread ==
    [pc |-> "mkdir", repo_dir |-> "unbound", old_cwd |-> "unbound", next |-> 1,
     exc |-> "none", ran_in |-> {}, gate |-> "none", fetch |-> "none",
     comment |-> "none", uploaded |-> FALSE]

InitConcurrent ==
    /\ label = NoLabel /\ conf = NoConf /\ data = NoEvent
    /\ approvals = <<>> /\ labels = <<>> /\ ret = "none"
    /\ pc = "idle" /\ exc = "none" /\ local = NoLocal /\ hist = NoHist
    /\ call = "none" /\ stream = NoStream /\ queue = <<>> /\ chan = <<>>
    /\ shist = NoSHist /\ groups = {}
    /\ cmds = <<>> /\ dirs = {} /\ cwd = "/srv"
    /\ threads = [t \in ThreadIds |-> NoThread]

concurrentFrame ==
    <<label, conf, data, approvals, labels, ret, pc, exc, local, hist, call, stream,
      queue, chan, shist, groups>>

\* "/srv" is never removed; a scratch directory exists while it is in dirs
Exists(d) == d = "/srv" \/ d \in dirs

\* send_upstream, lines 615-628: uuid4 names a directory nobody has, and
\* os.makedirs makes it
T_MakeScratch(t) ==
    /\ threads[t].pc = "mkdir"
    /\ \E u \in Uuids :
        /\ ScratchDir(u) \notin dirs
        /\ \A o \in ThreadIds : threads[o].repo_dir # ScratchDir(u)
        /\ dirs' = dirs \cup {ScratchDir(u)}
        /\ threads' = [threads EXCEPT ![t].repo_dir = ScratchDir(u), ![t].pc = "getcwd"]
    /\ UNCHANGED <<concurrentFrame, cmds, cwd>>

\* send_upstream, line 631: old_cwd = os.getcwd(), which raises OSError
\* when the working directory has been removed
T_GetCwd(t) ==
    /\ threads[t].pc = "getcwd"
    /\ threads' = IF Exists(cwd)
                  THEN [threads EXCEPT ![t].old_cwd = cwd, ![t].pc = "chdir"]
                  ELSE [threads EXCEPT ![t].exc = "OSError", ![t].pc = "raised"]
    /\ UNCHANGED <<concurrentFrame, cmds, dirs, cwd>>

\* send_upstream, line 636: os.chdir(repo_dir) moves the whole process
T_Chdir(t) ==
    /\ threads[t].pc = "chdir"
    /\ cwd' = threads[t].repo_dir
    /\ threads' = [threads EXCEPT ![t].pc = "local"]
    /\ UNCHANGED <<concurrentFrame, cmds, dirs>>

\* send_upstream, lines 639-695: the next local command runs in the working
\* directory of the process; when it fails the except clauses (which post a
\* comment or let the exception pass) lead to the finally clause
T_Local(t) ==
    /\ threads[t].pc = "local"
    /\ LET k == threads[t].next
           ran == threads[t].ran_in \cup {cwd}
       IN  \E st \in {"0", "1"} :
            threads' =
                 CASE st = "1" ->
                        [threads EXCEPT ![t].ran_in = ran, ![t].pc = "finally",
                                        ![t].exc = IF k <= 3 THEN "CalledProcessError"
                                                   ELSE "none",
                                        ![t].uploaded =
                                            (k = Len(LocalCommands(ThreadEvent(t))))]
                   [] st = "0" /\ k = Len(LocalCommands(ThreadEvent(t))) ->
                        [threads EXCEPT ![t].ran_in = ran, ![t].pc = "finally",
                                        ![t].uploaded = TRUE]
                   [] OTHER -> [threads EXCEPT ![t].ran_in = ran, ![t].next = k + 1]
    /\ UNCHANGED <<concurrentFrame, cmds, dirs, cwd>>

\* send_upstream, line 722: os.chdir(old_cwd), which raises OSError when
\* that directory has been removed; the rmtree is then skipped
T_Restore(t) ==
    /\ threads[t].pc = "finally"
    /\ IF Exists(threads[t].old_cwd)
       THEN /\ cwd' = threads[t].old_cwd
            /\ threads' = [threads EXCEPT ![t].pc = "rmtree"]
       ELSE /\ threads' = [threads EXCEPT ![t].exc = "OSError", ![t].pc = "raised"]
            /\ UNCHANGED cwd
    /\ UNCHANGED <<concurrentFrame, cmds, dirs>>

\* send_upstream, line 725: shutil.rmtree(repo_dir), then the return or the
\* exception in flight
T_Rmtree(t) ==
    /\ threads[t].pc = "rmtree"
    /\ dirs' = dirs \ {threads[t].repo_dir}
    /\ threads' = [threads EXCEPT ![t].pc = IF threads[t].exc = "none"
                                            THEN "returned" ELSE "raised"]
    /\ UNCHANGED <<concurrentFrame, cmds, cwd>>

MakeScratchStep == \E t \in ThreadIds : T_MakeScratch(t)
GetCwdStep == \E t \in ThreadIds : T_GetCwd(t)
ChdirStep == \E t \in ThreadIds : T_Chdir(t)
LocalStep == \E t \in ThreadIds : T_Local(t)
RestoreStep == \E t \in ThreadIds : T_Restore(t)
RmtreeStep == \E t \in ThreadIds : T_Rmtree(t)

NextConcurrent ==
    \/ MakeScratchStep
    \/ GetCwdStep
    \/ ChdirStep
    \/ LocalStep
    \/ RestoreStep
    \/ RmtreeStep

SpecConcurrent == InitConcurrent /\ [][NextConcurrent]_vars

(***************************************************************************)
(* SpecTwice: two runs of send_upstream on one comment-added event of one  *)
(* change and patchset, as two threads of one process, from the first gate *)
(* onwards.  approvals is what the downstream server holds for the         *)
(* patchset.  threads[t].gate tells where the gates let run t go,          *)
(* threads[t].fetch how its approvals query went, threads[t].comment what  *)
(* it posted downstream.                                                   *)
(***************************************************************************)
TwiceConfs ==
    {[projects |-> <<p>>, upstream |-> [trigger |-> Trigger], git_config |-> GitConfig] :
        p \in {[name |-> "demo", upstream |-> FALSE],
               [name |-> "demo", upstream |-> TRUE],
               [name |-> "demo", upstream |-> TRUE, upstream_labels |-> <<CodeReview>>]}}

TwiceEvents ==
    {[change |-> ThreadEvent("A")["change"], patchSet |-> PatchSet, comment |-> m] :
        m \in {Trigger, <<"R">>}}

InitTwice ==
    /\ label = NoLabel
    /\ conf \in TwiceConfs
    /\ data \in TwiceEvents
    /\ approvals \in {<<>>, <<Vote("Code-Review", "2")>>, <<Vote("Code-Review", "-2")>>}
    /\ labels = <<>> /\ ret = "none"
    /\ pc = "idle" /\ exc = "none" /\ local = NoLocal /\ hist = NoHist
    /\ call = "none" /\ stream = NoStream /\ queue = <<>> /\ chan = <<>>
    /\ shist = NoSHist /\ groups = {}
    /\ cmds = <<>> /\ dirs = {} /\ cwd = "/srv"
    /\ threads = [t \in ThreadIds |-> [NoThread EXCEPT !.pc = "start"]]

\* send_upstream, lines 590-592: the project gate
T_ProjectGate(t) ==
    /\ threads[t].pc = "start"
    /\ threads' = IF is_upstream_project(conf, data)
                  THEN [threads EXCEPT ![t].pc = "trigger"]
                  ELSE [threads EXCEPT ![t].pc = "returned", ![t].gate = "project"]
    /\ UNCHANGED <<concurrentFrame, cmds, dirs, cwd>>

\* send_upstream, lines 594-599: the trigger gate
T_TriggerGate(t) ==
    /\ threads[t].pc = "trigger"
    /\ LET r == is_upstream_indicated(conf, data)
       IN  threads' =
             CASE r = "True" -> [threads EXCEPT ![t].pc = "evaluate"]
               [] r = "False" -> [threads EXCEPT ![t].pc = "returned", ![t].gate = "trigger"]
               [] OTHER -> [threads EXCEPT ![t].pc = "raised", ![t].exc = r]
    /\ UNCHANGED <<concurrentFrame, cmds, dirs, cwd>>

\* the evaluation gate that lets a run pass only when no other run has
\* passed it for the change, a faulty variant
T_EvaluationGate_once(t) ==
    /\ threads[t].pc = "evaluate"
    /\ \E f \in {"ok", "failed"} :
        LET got == IF f = "ok" THEN approvals ELSE <<>>
        IN  IF /\ is_upstream_approved(conf, data, got)
               /\ \A o \in ThreadIds : threads[o].gate # "passed"
            THEN threads' = [threads EXCEPT ![t].pc = "mkdir", ![t].fetch = f,
                                            ![t].gate = "passed"]
            ELSE \E st \in Statuses :
                    threads' = [threads EXCEPT
                                    ![t].fetch = f, ![t].gate = "unapproved",
                                    ![t].comment = NotApprovedMsg,
                                    ![t].pc = IF st = "raise" THEN "raised" ELSE "returned",
                                    ![t].exc = IF st = "raise" THEN "SSHException" ELSE @]
    /\ UNCHANGED <<concurrentFrame, cmds, dirs, cwd>>

\* send_upstream, lines 604-611: get_approvals (the list the server holds,
\* or the empty list when the query failed), is_upstream_approved, and the
\* comment of a change that is not approved
T_EvaluationGate(t) ==
    /\ threads[t].pc = "evaluate"
    /\ \E f \in {"ok", "failed"} :
        LET got == IF f = "ok" THEN approvals ELSE <<>>
        IN  IF is_upstream_approved(conf, data, got)
            THEN threads' = [threads EXCEPT ![t].pc = "mkdir", ![t].fetch = f,
                                            ![t].gate = "passed"]
            ELSE \E st \in Statuses :
                    threads' = [threads EXCEPT
                                    ![t].fetch = f, ![t].gate = "unapproved",
                                    ![t].comment = NotApprovedMsg,
                                    ![t].pc = IF st = "raise" THEN "raised" ELSE "returned",
                                    ![t].exc = IF st = "raise" THEN "SSHException" ELSE @]
    /\ UNCHANGED <<concurrentFrame, cmds, dirs, cwd>>

ProjectGateStep == \E t \in ThreadIds : T_ProjectGate(t)
TriggerGateStep == \E t \in ThreadIds : T_TriggerGate(t)
EvaluationGateStep == \E t \in ThreadIds : T_EvaluationGate(t)

NextTwice ==
    \/ ProjectGateStep
    \/ TriggerGateStep
    \/ EvaluationGateStep
    \/ MakeScratchStep
    \/ GetCwdStep
    \/ ChdirStep
    \/ LocalStep
    \/ RestoreStep
    \/ RmtreeStep

SpecTwice == InitTwice /\ [][NextTwice]_vars

(***************************************************************************)
(* SpecFields: the properties of CommentAdded read on raw records that     *)
(* lack any of their keys.                                                 *)
(***************************************************************************)
\* d restricted to the keys in ks
Restrict(d, ks) == [k \in ks |-> d[k]]

FullOwner == [username |-> "owner", name |-> "Owner", email |-> "owner@example.org"]

FullChange ==
    [id |-> "I1", project |-> "demo", branch |-> "master", topic |-> "topic",
     owner |-> FullOwner]

\* 'change' records with any of their keys missing, the owner record
\* with any of its keys missing
FieldChanges ==
    {Restrict([FullChange EXCEPT !.owner = Restrict(FullOwner, os)], ks) :
        os \in SUBSET DOMAIN FullOwner, ks \in SUBSET DOMAIN FullChange}

FieldPatchSets == {Restrict(PatchSet, ks) : ks \in SUBSET DOMAIN PatchSet}

\* raw records: 'change' and 'patchSet' are each present or not
FieldEvents ==
    {[change |-> c, patchSet |-> ps] : c \in FieldChanges, ps \in FieldPatchSets}
    \cup {[change |-> c] : c \in FieldChanges}
    \cup {[patchSet |-> ps] : ps \in FieldPatchSets}

\* self._data[k1][k2]: KeyError when either key is missing
Index2(d, k1, k2) ==
    IF k1 \notin DOMAIN d THEN "KeyError"
    ELSE IF k2 \notin DOMAIN d[k1] THEN "KeyError"
    ELSE d[k1][k2]

\* self._data[k1].get(k2): KeyError when k1 is missing, None when k2 is
Index1Get(d, k1, k2) ==
    IF k1 \notin DOMAIN d THEN "KeyError" ELSE Get(d[k1], k2, "None")

\* self._data['change']['owner'].get(k)
OwnerGet(d, k) ==
    IF "change" \notin DOMAIN d THEN "KeyError"
    ELSE IF "owner" \notin DOMAIN d["change"] THEN "KeyError"
    ELSE Get(d["change"]["owner"], k, "None")

\* the properties of CommentAdded, lines 345-433; int(None) raises TypeError
read(property, d) ==
    CASE property = "change_id" -> Index1Get(d, "change", "id")
      [] property = "patchset_id" ->
            LET number == Index1Get(d, "patchSet", "number")
            IN  CASE number = "KeyError" -> "KeyError"
                  [] number = "None" -> "TypeError"
                  [] OTHER -> str(int(number))
      [] property = "project" -> Index2(d, "change", "project")
      [] property = "branch" -> Index2(d, "change", "branch")
      [] property = "topic" -> Index2(d, "change", "topic")
      [] property = "revision" -> Index2(d, "patchSet", "revision")
      [] property = "change_owner_username" -> OwnerGet(d, "username")
      [] property = "change_owner_name" -> OwnerGet(d, "name")
      [] property = "change_owner_email" -> OwnerGet(d, "email")

Properties ==
    {"change_id", "patchset_id", "project", "branch", "topic", "revision",
     "change_owner_username", "change_owner_name", "change_owner_email"}

InitFields ==
    /\ label = NoLabel /\ conf = NoConf
    /\ data \in FieldEvents
    /\ approvals = <<>> /\ labels = <<>> /\ ret = "none"
    /\ IdleWorkflow

\* a property of the event is read
ReadProperty ==
    /\ \E property \in Properties :
        /\ call' = property
        /\ ret' = read(property, data)
    /\ UNCHANGED <<label, conf, data, approvals, labels, pc, exc, cmds, dirs, cwd,
                   local, hist, stream, queue, chan, shist, threads, groups>>

NextFields == ReadProperty

SpecFields == InitFields /\ [][NextFields]_vars

(***************************************************************************)
(* SpecFetch: get_approvals called on an event of patchset 1 or 2; what    *)
(* the query answered is kept in hist.reply.                               *)
(***************************************************************************)
FetchEvents ==
    {[change |-> BaseChange("demo"), patchSet |-> [number |-> n, revision |-> "rev1"]] :
        n \in {"1", "2"}}

InitFetch ==
    /\ label = NoLabel /\ conf = NoConf
    /\ data \in FetchEvents
    /\ approvals = <<>> /\ labels = <<>> /\ ret = "none"
    /\ IdleWorkflow

\* get_approvals, lines 509-546
Call_get_approvals ==
    /\ hist["fetch"] = "none"
    /\ \/ /\ \E f \in {<<"raise", "exception">>, <<"1", "nonzero">>, <<"0", "unparsable">>} :
                /\ cmds' = Append(cmds, Cmd("downstream", approvals_cmd(data), f[1]))
                /\ hist' = [hist EXCEPT !.fetch = f[2]]
          /\ approvals' = <<>>
       \/ \E reply \in Replies :
            LET got == collect(reply, patchset_id(data), <<>>)
            IN  /\ cmds' = Append(cmds, Cmd("downstream", approvals_cmd(data), "0"))
                /\ approvals' = got["approvals"]
                /\ hist' = [hist EXCEPT !.reply = reply,
                                        !.fetch = IF got["failed"] THEN "malformed" ELSE "ok"]
    /\ UNCHANGED <<label, conf, data, labels, ret, pc, exc, dirs, cwd, local, restVars>>

NextFetch == Call_get_approvals

SpecFetch == InitFetch /\ [][NextFetch]_vars

(***************************************************************************)
(* SpecGroup: Group.present called once on a group dictionary, against a   *)
(* server that has the groups in groups.  ls-groups exits 0 when the       *)
(* server has the group and non-zero when it has not; create-group of a    *)
(* group the server has not exits 0 or non-zero; on either command         *)
(* exec_once may raise instead (the connection failed).                    *)
(***************************************************************************)
GroupNames == {"dev", "Release Managers"}

\* the data of a Group: 'name' is required, 'description' and 'owner' are
\* optional
GroupDicts ==
    {[name |-> n] : n \in GroupNames}
    \cup {[name |-> n, description |-> "Core team"] : n \in GroupNames}
    \cup {[name |-> n, owner |-> "Administrators"] : n \in GroupNames}
    \cup {[name |-> n, description |-> "Core team", owner |-> "Administrators"] :
            n \in GroupNames}

\* pipes.quote: a word of safe characters is left as it is, any other
\* string is wrapped in single quotes
quote_word(w) == IF w \in {"dev", "Administrators"} THEN w ELSE "'" \o w \o "'"

\* Group.get_ls
get_ls(g) == "gerrit ls-groups -q " \o quote_word(g["name"]) \o " --verbose"

\* Group.get_create
get_create(g) ==
    "gerrit create-group " \o quote_word(g["name"])
        \o (IF "description" \in DOMAIN g
            THEN " --description " \o quote_word(g["description"]) ELSE "")
        \o (IF "owner" \in DOMAIN g THEN " --owner " \o quote_word(g["owner"]) ELSE "")

InitGroup ==
    /\ label = NoLabel /\ conf = NoConf
    /\ data \in GroupDicts
    /\ approvals = <<>> /\ labels = <<>> /\ ret = "none"
    /\ pc = "idle" /\ exc = "none" /\ cmds = <<>> /\ dirs = {}
    /\ cwd = "/srv" /\ local = NoLocal /\ hist = NoHist
    /\ call = "none" /\ stream = NoStream /\ queue = <<>> /\ chan = <<>>
    /\ shist = NoSHist /\ threads = <<>>
    /\ groups \in SUBSET GroupNames

\* Group.present, lines 839-868, with Group.exists, lines 828-837: the
\* ls-groups command, then 'return' without a value when it exited 0,
\* otherwise the create-group command and its result
Group_present ==
    /\ ret = "none" /\ exc = "none"
    /\ LET there == data["name"] \in groups
       IN  \E ls \in IF there THEN {"0", "raise"} ELSE {"1", "raise"} :
            CASE ls = "raise" ->
                    /\ cmds' = Append(cmds, Cmd("remote", get_ls(data), ls))
                    /\ exc' = "SSHException"
                    /\ UNCHANGED <<ret, groups>>
              [] ls = "0" ->
                    /\ cmds' = Append(cmds, Cmd("remote", get_ls(data), ls))
                    /\ ret' = "None"
                    /\ UNCHANGED <<exc, groups>>
              [] OTHER ->
                    \E cr \in {"0", "1", "raise"} :
                        /\ cmds' = cmds \o <<Cmd("remote", get_ls(data), ls),
                                             Cmd("remote", get_create(data), cr)>>
                        /\ groups' = IF cr = "0" THEN groups \cup {data["name"]}
                                     ELSE groups
                        /\ ret' = CASE cr = "0" -> "True"
                                    [] cr = "1" -> "False"
                                    [] OTHER -> ret
                        /\ exc' = IF cr = "raise" THEN "SSHException" ELSE exc
    /\ UNCHANGED <<label, conf, data, approvals, labels, pc, dirs, cwd, local, hist,
                   call, stream, queue, chan, shist, threads>>

NextGroup == Group_present

SpecGroup == InitGroup /\ [][NextGroup]_vars

(***************************************************************************)
(* Claims about the label voting model and the gates as functions.         *)
(***************************************************************************)
\* C1: whenever approved() has just been called on a label with min < max,
\* it returned true if and only if at least one value was recorded, every
\* recorded value (so the smallest) is strictly greater than the min bound
\* and some recorded value (so the largest) is at least the max bound.
C1_ApprovedIffAboveMinAndMaxReached ==
    ret \in {"True", "False"} =>
        LET vs == label._values
        IN  (ret = "True") <=>
                /\ Len(vs) > 0
                /\ \A i \in 1..Len(vs) : vs[i] > label._min
                /\ \E i \in 1..Len(vs) : vs[i] >= label._max

\* C1 witness: approved() answered false for a label that holds a value at
\* or above max together with a value at or below min.
C1_BlockedDespiteMax ==
    /\ ret = "False"
    /\ \E i \in 1..Len(label._values) : label._values[i] >= label._max
    /\ \E i \in 1..Len(label._values) : label._values[i] <= label._min

\* The list of label requirements that applies to the event's project: the
\* 'upstream-labels' of the first project entry of that name when it has
\* them, the global list otherwise.
ConfiguredLabelDicts ==
    LET ps == Get(conf, "projects", <<>>)
        hit == {i \in 1..Len(ps) : ps[i]["name"] = data["change"]["project"]}
        first == CHOOSE i \in hit : \A j \in hit : i <= j
    IN  IF hit # {} /\ "upstream_labels" \in DOMAIN ps[first]
        THEN ps[first]["upstream_labels"]
        ELSE Get(conf, "upstream_labels", <<>>)

\* The label of name n (the last requirement of that name) is approved by
\* the values of the approvals of type n.
LabelSatisfied(n, as) ==
    LET lds == ConfiguredLabelDicts
        last == CHOOSE i \in 1..Len(lds) :
                    /\ lds[i]["name"] = n
                    /\ \A j \in (i + 1)..Len(lds) : lds[j]["name"] # n
        votes == {i \in 1..Len(as) : as[i]["type"] = n}
    IN  /\ votes # {}
        /\ \A i \in votes : int(as[i]["value"]) > lds[last]["min"]
        /\ \E i \in votes : int(as[i]["value"]) >= lds[last]["max"]

ConfiguredLabelNames ==
    {ConfiguredLabelDicts[i]["name"] : i \in 1..Len(ConfiguredLabelDicts)}

\* C2: is_upstream_approved(approvals) returns true if and only if every
\* label configured for the event's project is approved by the approvals of
\* its name; with no configured label it returns true for every list.
C2_ApprovedIffEveryLabelApproved ==
    ret \in {"True", "False"} =>
        /\ (ret = "True") <=> \A n \in ConfiguredLabelNames : LabelSatisfied(n, approvals)
        /\ ConfiguredLabelDicts = <<>> => ret = "True"

\* C2 witness: two labels are configured, the approvals satisfy one of them
\* and not the other, and the call returned false.
C2_OneLabelOfTwoFails ==
    /\ ret = "False"
    /\ Cardinality(ConfiguredLabelNames) = 2
    /\ \E n \in ConfiguredLabelNames : LabelSatisfied(n, approvals)

\* The trigger occurs in the comment before the first line break.
TriggerInFirstLine ==
    LET c == Get(data, "comment", <<>>)
        t == conf["upstream"]["trigger"]
    IN  \E i \in 1..Len(c) :
            /\ i + Len(t) - 1 <= Len(c)
            /\ \A k \in 1..Len(t) : c[i + k - 1] = t[k]
            /\ \A j \in 1..(i + Len(t) - 1) : c[j] \notin LineBreaks

\* The trigger occurs in the comment after a line break.
TriggerInLaterLine ==
    LET c == Get(data, "comment", <<>>)
        t == conf["upstream"]["trigger"]
    IN  \E i \in 1..Len(c) :
            /\ i + Len(t) - 1 <= Len(c)
            /\ \A k \in 1..Len(t) : c[i + k - 1] = t[k]
            /\ \E j \in 1..(i - 1) : c[j] \in LineBreaks

\* C6: is_upstream_indicated returns true if and only if the trigger token
\* is a substring of the first line of the comment, whatever follows the
\* token and whatever the later lines hold.
C6_IndicatedIffTriggerInFirstLine ==
    ret # "none" => ((ret = "True") <=> TriggerInFirstLine)

\* C6 witness: the token stands on a later line only and the gate did not
\* pass.
C6_TriggerOnLaterLineOnly ==
    /\ ret = "False"
    /\ TriggerInLaterLine
    /\ ~TriggerInFirstLine

(***************************************************************************)
(* Claims about send_upstream.                                             *)
(***************************************************************************)
\* The event's project is in the configuration (its first entry of that
\* name) and marked upstream.
Eligible ==
    LET ps == Get(conf, "projects", <<>>)
        hit == {i \in 1..Len(ps) : ps[i]["name"] = data["change"]["project"]}
        first == CHOOSE i \in hit : \A j \in hit : i <= j
    IN  /\ hit # {}
        /\ "upstream" \in DOMAIN ps[first]
        /\ ps[first]["upstream"]

ProjectConfigured ==
    \E i \in 1..Len(Get(conf, "projects", <<>>)) :
        conf["projects"][i]["name"] = data["change"]["project"]

FetchFailed == hist["fetch"] \in {"nonzero", "exception", "unparsable"}

\* the commands of the log that were run locally (git, git-review)
LocalCmds == {i \in 1..Len(cmds) : cmds[i]["on"] = "local"}

DownloadText == "git-review -r downstream -d I1,1"
UploadText == "git-review -R -y -r upstream master -t topic"
QueryText ==
    "gerrit query change:I1 branch:master project:demo --all-approvals limit:1 --format JSON"
RejectedText ==
    "gerrit review -m 'Could not send to upstream: One or more labels not approved.' rev1"
DownloadFailedText ==
    "gerrit review -m 'Could not send to upstream:\nfatal: change not found' rev1"

\* C3 as stated: a failed approval query leaves zero approvals, fails the
\* evaluation gate and is followed by no transfer step, for every label
\* configuration, the empty label list included.
C3_FailedFetchNeverPromotes ==
    FetchFailed =>
        /\ approvals = <<>>
        /\ hist["approved"] # "True"
        /\ hist["made"] = {}
        /\ LocalCmds = {}

\* C3 as amended: when at least one label is configured for the project, a
\* failed approval query leaves zero approvals, the evaluation gate fails,
\* and no scratch directory, download or upload follows.
C3_FailedFetchFailsGateWhenLabelsConfigured ==
    (FetchFailed /\ ConfiguredLabelDicts # <<>>) =>
        /\ approvals = <<>>
        /\ hist["approved"] # "True"
        /\ pc # "evaluate" => hist["approved"] = "False"
        /\ hist["made"] = {}
        /\ LocalCmds = {}

\* C3 witness: the query exited non-zero, labels are configured, and the
\* run ended at the evaluation gate.
C3_FailedFetchRejected ==
    /\ hist["fetch"] = "nonzero"
    /\ ConfiguredLabelDicts # <<>>
    /\ hist["approved"] = "False"
    /\ pc = "returned"

\* C4: for an event whose project is not configured, or whose configured
\* entry is not marked upstream, send_upstream returns without any remote
\* command, scratch directory or local command.
C4_ProjectGateSilent ==
    ~Eligible =>
        /\ pc \in {"start", "returned"}
        /\ exc = "none"
        /\ cmds = <<>>
        /\ hist["made"] = {}
        /\ dirs = {}
        /\ cwd = hist["entry_cwd"]

\* C4 witness: a configured project not marked upstream, a comment that
\* carries the trigger, and the run has returned.
C4_ConfiguredNotUpstreamReturned ==
    /\ ProjectConfigured
    /\ ~Eligible
    /\ TriggerInFirstLine
    /\ pc = "returned"

\* C5: on an upstream-eligible project, a comment whose first line lacks
\* the trigger makes send_upstream return normally after the trigger gate,
\* with no approval query, comment or transfer step: the empty comment, one
\* line, many lines.
C5_NoTriggerStopsSilently ==
    (Eligible /\ ~TriggerInFirstLine) =>
        /\ pc \in {"start", "trigger", "returned"}
        /\ exc = "none"
        /\ cmds = <<>>
        /\ hist["made"] = {}

\* C7: when the evaluation gate rejects, the run ends having issued the
\* approvals query and then exactly one review comment, on the downstream
\* server and the event's revision, with the fixed text; no scratch
\* directory was made and no local command run.
C7_RejectionPostsFixedComment ==
    (hist["approved"] = "False" /\ Ended) =>
        /\ Len(cmds) = 2
        /\ cmds[1]["on"] = "downstream" /\ cmds[1]["cmd"] = QueryText
        /\ cmds[2]["on"] = "downstream" /\ cmds[2]["cmd"] = RejectedText
        /\ hist["made"] = {}
        /\ dirs = {}

\* C7 witness: approvals were fetched, a label is not approved, the comment
\* was delivered and the run returned.
C7_RejectedWithApprovals ==
    /\ hist["approved"] = "False"
    /\ approvals # <<>>
    /\ pc = "returned"
    /\ Len(cmds) = 2 /\ cmds[2]["status"] = "0"

DownloadExitedNonZero ==
    \E i \in LocalCmds : cmds[i]["cmd"] = DownloadText /\ cmds[i]["status"] = "1"

\* C8: when the download exited non-zero, the ended run has posted on the
\* downstream server the failure message followed by the captured output,
\* has run no upload command, and its scratch directory is gone.
C8_DownloadFailureReported ==
    (DownloadExitedNonZero /\ Ended) =>
        /\ \E j \in 1..Len(cmds) :
            /\ cmds[j]["on"] = "downstream"
            /\ cmds[j]["cmd"] = DownloadFailedText
        /\ \A j \in 1..Len(cmds) : cmds[j]["cmd"] # UploadText
        /\ hist["made"] # {}
        /\ hist["made"] \cap dirs = {}

\* C8 witness: the download exited non-zero and the call has ended.
C8_DownloadFailedEnded ==
    /\ DownloadExitedNonZero
    /\ Ended
    /\ "topic" \in DOMAIN data["change"]

\* The failures C9 names: a gate that fails, or a download or upload that
\* exits non-zero or raises, or the missing topic.
GateFailed ==
    \/ ~Eligible
    \/ Eligible /\ is_upstream_indicated(conf, data) = "False"
    \/ hist["approved"] = "False"

TransferFailed ==
    \E i \in LocalCmds :
        /\ cmds[i]["cmd"] \in {DownloadText, UploadText}
        /\ cmds[i]["status"] # "0"

\* every review comment and query reached its server
RemoteCommandsDelivered ==
    \A i \in 1..Len(cmds) : cmds[i]["on"] # "local" => cmds[i]["status"] # "raise"

\* C9: after a gate failure or a transfer failure send_upstream returns
\* normally, no exception escapes (stated for the runs whose remote
\* commands all reached their server).
C9_FailuresContained ==
    (Ended /\ RemoteCommandsDelivered /\ (GateFailed \/ TransferFailed)) =>
        pc = "returned"

\* C10: when a run that made a scratch directory ends, by return or by
\* exception, the working directory is the one at entry and the scratch
\* directory does not exist.
C10_CleanupOnEveryExit ==
    (Ended /\ hist["made"] # {}) =>
        /\ cwd = hist["entry_cwd"]
        /\ hist["made"] \cap dirs = {}

\* C10 witness: a run that made its scratch directory and moved into it has
\* ended with an exception.
C10_RaisedAfterScratch ==
    /\ pc = "raised"
    /\ hist["made"] # {}
    /\ \E i \in LocalCmds : cmds[i]["cwd"] \in hist["made"]

\* the url built from the upstream host and the change id
ConstructedUrl == "https://up.example.org/#q,I1,n,z"

\* the comment that follows the url query: the entry after the command sent
\* to the upstream server
SentComments == {i \in 2..Len(cmds) : cmds[i - 1]["on"] = "upstream"}

\* C11: the comment posted after a successful upload carries the url the
\* upstream query found, and the constructed url when the query found no
\* match, exited non-zero or raised.
C11_SentCommentCarriesUrl ==
    \A i \in SentComments :
        /\ hist["url"] = "found" =>
            cmds[i]["cmd"] = "gerrit review -m 'Sent to upstream: " \o FoundUrl \o "' rev1"
        /\ hist["url"] \in {"nomatch", "nonzero", "raise"} =>
            cmds[i]["cmd"] =
                "gerrit review -m 'Sent to upstream: " \o ConstructedUrl \o "' rev1"

\* the identity the upstream push must use: the owner's when the owner has
\* a username, the configured service identity otherwise
OwnerHasUsername ==
    /\ "owner" \in DOMAIN data["change"]
    /\ "username" \in DOMAIN data["change"]["owner"]

ExpectedIdentity ==
    IF OwnerHasUsername
    THEN [username |-> "owner",
          name |-> Get(data["change"]["owner"], "name", "None"),
          email |-> Get(data["change"]["owner"], "email", "None")]
    ELSE [username |-> "upservice", name |-> "Service",
          email |-> "service@example.org"]

UpstreamRemoteText(u) ==
    "git remote add upstream ssh://" \o u \o "@up.example.org:29418/"
        \o data["change"]["project"]

IdentityCmds ==
    {i \in LocalCmds :
        \/ cmds[i]["cmd"] \in {UpstreamRemoteText(u) : u \in {"owner", "upservice"}}
        \/ cmds[i]["cmd"] \in {"git config user.name " \o n : n \in {"Owner", "Service"}}
        \/ cmds[i]["cmd"] \in {"git config user.email " \o e :
                                e \in {"owner@example.org", "service@example.org"}}}

Disconnected == stream.pc = "closing"

\* C13: while no stop is requested, every exit from Connecting or Streaming
\* (connect error, exception while streaming, end of the remote command) is
\* followed, after the backoff wait, by a new Connecting attempt.
C13_ReconnectsAfterEveryExit ==
    (Disconnected /\ ~stream.stop) ~>
        ((stream.pc = "connecting" /\ shist.waited) \/ stream.stop)

\* C13 witness: the remote command ended, nobody asked for a stop, and the
\* thread is connecting again after its wait.
C13_ReconnectingAfterStreamEnd ==
    /\ stream.pc = "connecting" /\ shist.waited /\ ~stream.stop
    /\ shist.exit = "end"

\* the stop flag was set while the thread was Connecting or Streaming
StoppedBeforeExit == shist.stop_at \in {"connecting", "streaming", "recv", "stopcheck"}

\* C14: when the stop was issued before the error or the end of the stream,
\* the thread closes the session and terminates; it neither waits the
\* backoff interval nor starts another connection attempt.
C14_StopBeforeExitTerminatesAtOnce ==
    /\ [](StoppedBeforeExit =>
            /\ stream.pc # "sleeping"
            /\ shist.after_stop = 0
            /\ stream.pc \in {"check", "terminated"} => stream.open = 0)
    /\ (StoppedBeforeExit ~> stream.pc = "terminated")

\* C14 witness: stop arrived while streaming, the stream then failed with
\* an exception, and the thread has terminated.
C14_TerminatedAfterStopAndError ==
    /\ shist.stop_at = "streaming" /\ shist.exit = "error"
    /\ stream.pc = "terminated"

\* C15: once the stop flag is set, whether in Connecting, in Streaming or
\* during the backoff wait, no new connection attempt starts.
C15_NoAttemptAfterStop ==
    (StoppedBeforeExit \/ shist.stop_at = "sleeping") => shist.after_stop = 0

\* C15 as the code has it: a stop that arrives anywhere but in the backoff
\* wait is followed by no new connection attempt; a stop that arrives in
\* the wait is followed by one attempt at most; the thread terminates in
\* every case.
C15_StopHonoredAtNextCheckPoint ==
    /\ [](shist.stop_at \notin {"none", "sleeping"} => shist.after_stop = 0)
    /\ [](shist.after_stop <= 1)
    /\ (stream.stop ~> stream.pc = "terminated")

\* C15 witness: the stop arrived during the wait, the thread connected once
\* more and has terminated.
C15_TerminatedAfterOneMoreAttempt ==
    /\ shist.stop_at = "sleeping" /\ shist.after_stop = 1
    /\ stream.pc = "terminated"

\* C16: at most one session is open at any moment, and none is open when
\* the next connection attempt begins, during the wait, or when the thread
\* has terminated.
C16_OneSessionAtATime ==
    /\ stream.open <= 1
    /\ stream.pc \in {"connecting", "check", "sleeping", "terminated"} => stream.open = 0

\* C16 witness: the remote command ended, the loop ended without exception,
\* and the session is closed while the thread waits to reconnect.
C16_ClosedAfterStreamEnd ==
    /\ stream.pc = "sleeping" /\ shist.exit = "end"
    /\ stream.session = "closed" /\ stream.open = 0

\* C17: get_event on an empty queue returns None and leaves the queue
\* empty; on a head that is not valid JSON it returns None and removes that
\* item; otherwise it returns the parsed event and removes exactly that item.
C17_GetEventContract ==
    [][(shist'.taken # shist.taken) =>
        /\ queue = <<>> => (ret' = "None" /\ queue' = <<>>)
        /\ (queue # <<>> /\ Head(queue) \notin {EventA, EventB}) =>
                (ret' = "None" /\ queue' = Tail(queue))
        /\ (queue # <<>> /\ Head(queue) = EventA) =>
                (ret' = "event comment-added" /\ queue' = Tail(queue))
        /\ (queue # <<>> /\ Head(queue) = EventB) =>
                (ret' = "event ref-updated" /\ queue' = Tail(queue))]_vars

\* C17 witness: get_event removed a line that is not JSON, and the next
\* call returned the event that followed it.
C17_EventAfterInvalidLine ==
    /\ shist.taken = <<"Connection reset by peer", EventB>>
    /\ ret = "event ref-updated"

(***************************************************************************)
(* Claims about concurrent attempts.                                       *)
(***************************************************************************)
BothEnded == \A t \in ThreadIds : threads[t].pc \in {"returned", "raised"}

\* C18: with two attempts running concurrently in one process, every local
\* command of an attempt runs inside that attempt's own scratch directory,
\* and when both have finished the working directory of the process is the
\* one before either started.
C18_AttemptsNeverCollide ==
    /\ \A t \in ThreadIds : threads[t].ran_in \subseteq {threads[t].repo_dir}
    /\ BothEnded => cwd = "/srv"

(***************************************************************************)
(* Claims about the properties of CommentAdded.                            *)
(***************************************************************************)
\* where the raw record keeps the field behind each property
FieldPath ==
    [change_id |-> <<"change", "id">>, patchset_id |-> <<"patchSet", "number">>,
     project |-> <<"change", "project">>, branch |-> <<"change", "branch">>,
     revision |-> <<"patchSet", "revision">>]

RequiredFieldAbsent ==
    /\ call \in DOMAIN FieldPath
    /\ \/ FieldPath[call][1] \notin DOMAIN data
       \/ FieldPath[call][2] \notin DOMAIN data[FieldPath[call][1]]

\* C19: reading the property of a required field (change id, project,
\* branch, patchset number, revision) that the raw record lacks fails with
\* an error and never returns None.
C19_RequiredFieldsFail ==
    RequiredFieldAbsent => ret \in {"KeyError", "TypeError"}

OwnerField ==
    [change_owner_username |-> "username", change_owner_name |-> "name",
     change_owner_email |-> "email"]

OwnerFieldAbsent ==
    /\ call \in DOMAIN OwnerField
    /\ "change" \in DOMAIN data
    /\ \/ "owner" \notin DOMAIN data["change"]
       \/ OwnerField[call] \notin DOMAIN data["change"]["owner"]

\* C20: reading the property of an owner field (username, name, email) that
\* the record lacks, the change having an owner record or none at all,
\* returns None and does not fail.
C20_OwnerFieldsReturnNone ==
    OwnerFieldAbsent => ret = "None"

(***************************************************************************)
(* Claims about the approval fetch and the order of the workflow.          *)
(***************************************************************************)
\* C21: whatever fails during the approvals query or while its result is
\* read (the transport raises, the exit status is non-zero, the output does
\* not parse, a patchset entry is malformed after approvals were
\* collected), get_approvals returns the empty list.
C21_FailedFetchReturnsEmptyList ==
    hist["fetch"] \in {"exception", "nonzero", "unparsable", "malformed"} =>
        approvals = <<>>

\* the orders in which the elements of a list can come
Orders(s) == {[i \in 1..Len(s) |-> s[f[i]]] : f \in Permutations(1..Len(s))}

\* C22: the decision depends on the accumulated values and the bounds only:
\* every order of the same approvals gives the same result, for each label
\* and for the gate; a call changes no label; a call repeated on the same
\* approvals and configuration returns the same boolean.
C22_DecisionIsPureFunction ==
    /\ [](ret \in {"True", "False"} =>
            /\ \A order \in Orders(approvals) :
                    Bool(is_upstream_approved(conf, data, order)) = ret
            /\ \A n \in DOMAIN labels :
                    \A order \in Orders(labels[n]._values) :
                        approved([labels[n] EXCEPT !._values = order]) = approved(labels[n]))
    /\ [][(ret \in {"True", "False"}) => (ret' = ret /\ labels' = labels)]_vars

\* C22 witness: Code-Review has bounds -2/+2, the approvals are +2 then -2,
\* and the gate returned false.
C22_BlockAfterMaxRejected ==
    /\ approvals = <<Vote("Code-Review", "2"), Vote("Code-Review", "-2")>>
    /\ "Code-Review" \in DOMAIN labels
    /\ labels["Code-Review"]._min = 0 - 2 /\ labels["Code-Review"]._max = 2
    /\ ret = "False"

\* the place of each position of send_upstream in the order of the workflow
Rank ==
    [start |-> 1, trigger |-> 2, fetch |-> 3, evaluate |-> 4, mkdir |-> 5, chdir |-> 6,
     init |-> 7, remote_downstream |-> 8, identity |-> 9, remote_upstream |-> 10,
     config_email |-> 11, config_name |-> 12, download |-> 13, upload |-> 14,
     url |-> 15, comment |-> 16, except_cpe |-> 17, except_exception |-> 17,
     finally |-> 18, returned |-> 19, raised |-> 19]

UploadIssued == \E i \in LocalCmds : cmds[i]["cmd"] = UploadText

\* C23: the steps of a run come in the order project gate, trigger gate,
\* approval fetch, evaluation gate, scratch directory, download, upload; an
\* upload command is run only when the project is upstream-eligible, the
\* first comment line holds the trigger, every configured label is approved
\* by the fetched approvals and the download of the run exited with zero.
C23_GatesInOrderBeforeUpload ==
    /\ [][pc' # pc => Rank[pc'] > Rank[pc]]_vars
    /\ [](/\ hist["fetch"] # "none" => (Eligible /\ TriggerInFirstLine)
          /\ hist["approved"] # "none" => hist["fetch"] # "none"
          /\ hist["made"] # {} => hist["approved"] = "True"
          /\ LocalCmds # {} => hist["made"] # {}
          /\ UploadIssued =>
                /\ Eligible
                /\ TriggerInFirstLine
                /\ \A n \in ConfiguredLabelNames : LabelSatisfied(n, approvals)
                /\ \E i, j \in LocalCmds :
                    /\ j < i
                    /\ cmds[i]["cmd"] = UploadText
                    /\ cmds[j]["cmd"] = DownloadText /\ cmds[j]["status"] = "0"
                /\ cmds[1]["cmd"] = approvals_cmd(data))

\* C23 witness: labels are configured, the upload command was run and
\* exited with zero, and the run returned.
C23_UploadedAfterAllGates ==
    /\ ConfiguredLabelDicts # <<>>
    /\ \E i \in LocalCmds : cmds[i]["cmd"] = UploadText /\ cmds[i]["status"] = "0"
    /\ pc = "returned"

\* the review comments of the log: what was sent to the downstream server
\* apart from the approvals query
ReviewComments ==
    {i \in 1..Len(cmds) :
        cmds[i]["on"] = "downstream" /\ cmds[i]["cmd"] # approvals_cmd(data)}

\* C24: a run issues at most one review comment command, and none when the
\* project gate or the trigger gate stopped it.
C24_AtMostOneComment ==
    /\ Cardinality(ReviewComments) <= 1
    /\ hist["fetch"] = "none" => ReviewComments = {}

ErrorRunningText ==
    "gerrit review -m 'Could not send to upstream: Error running git-review' rev1"

\* C25: no 'Could not send to upstream' comment is issued after the upload
\* command of the run exited with status zero.
C25_NoFailureCommentAfterUpload ==
    \A i \in LocalCmds :
        (cmds[i]["cmd"] = UploadText /\ cmds[i]["status"] = "0") =>
            \A j \in ReviewComments :
                j > i => cmds[j]["cmd"] \notin {ErrorRunningText, DownloadFailedText}

\* the entries of the reply that carry the patchset number of the event
OwnPatchSets ==
    SelectSeq(hist["reply"],
              LAMBDA ps : "number" \in DOMAIN ps
                            /\ ps["number"] = data["patchSet"]["number"])

RECURSIVE Flatten(_)
Flatten(lists) == IF lists = <<>> THEN <<>> ELSE Head(lists) \o Flatten(Tail(lists))

\* C26: get_approvals returns only approvals attached to the patchset whose
\* number is the event's: each returned approval stands in an entry of that
\* number, and a reply read to its end gives exactly the approvals of those
\* entries, whatever the other patchsets hold.
C26_OnlyApprovalsOfEventPatchset ==
    hist["fetch"] \in {"ok", "malformed"} =>
        /\ \A k \in 1..Len(approvals) :
            \E i \in 1..Len(OwnPatchSets) :
                /\ "approvals" \in DOMAIN OwnPatchSets[i]
                /\ \E j \in 1..Len(OwnPatchSets[i]["approvals"]) :
                        OwnPatchSets[i]["approvals"][j] = approvals[k]
        /\ hist["fetch"] = "ok" =>
                approvals = Flatten([i \in 1..Len(OwnPatchSets) |->
                                        OwnPatchSets[i]["approvals"]])

\* C26 witness: the event is of patchset 2; patchset 1 holds Code-Review +2,
\* patchset 2 holds Code-Review -2, and only the -2 was returned.
C26_OtherPatchsetIgnored ==
    /\ data["patchSet"]["number"] = "2"
    /\ hist["reply"] = <<[number |-> "1", approvals |-> <<Vote("Code-Review", "2")>>],
                         [number |-> "2", approvals |-> <<Vote("Code-Review", "-2")>>]>>
    /\ approvals = <<Vote("Code-Review", "-2")>>

\* the values of the approvals named exactly n, in the order of the list
ValuesNamed(n, as) ==
    LET own == SelectSeq(as, LAMBDA a : "type" \in DOMAIN a /\ a["type"] = n)
    IN  [i \in 1..Len(own) |-> int(own[i]["value"])]

\* the first entry of the event's project in the configuration, if any
OwnProjectEntry ==
    LET ps == Get(conf, "projects", <<>>)
    IN  SelectSeq(ps, LAMBDA p : p["name"] = data["change"]["project"])

\* C27: after the evaluation, the labels are those of the project's own
\* list when its entry declares one (an empty list gives no label), those
\* of the global list when the entry declares none or no entry is found;
\* each label holds exactly the values of the approvals of its own name, so
\* an approval naming no configured label has changed no label.
C27_RoutingByExactName ==
    ret \in {"True", "False"} =>
        LET declared == OwnProjectEntry # <<>>
                            /\ "upstream_labels" \in DOMAIN OwnProjectEntry[1]
            source == IF declared THEN OwnProjectEntry[1]["upstream_labels"]
                      ELSE Get(conf, "upstream_labels", <<>>)
        IN  /\ DOMAIN labels = {source[i]["name"] : i \in 1..Len(source)}
            /\ \A n \in DOMAIN labels :
                    /\ labels[n]["name"] = n
                    /\ labels[n]["_values"] = ValuesNamed(n, approvals)
            /\ (declared /\ source = <<>>) => ret = "True"

\* C27 witness: the project declares an empty list while the global list
\* requires Code-Review; a Code-Review -2 was given and the gate passed with
\* no label.
C27_EmptyOwnListShadowsGlobal ==
    /\ ret = "True"
    /\ labels = <<>>
    /\ OwnProjectEntry # <<>>
    /\ "upstream_labels" \in DOMAIN OwnProjectEntry[1]
    /\ OwnProjectEntry[1]["upstream_labels"] = <<>>
    /\ Get(conf, "upstream_labels", <<>>) = <<CodeReview>>
    /\ approvals = <<Vote("Code-Review", "-2")>>

\* C28: the run loop ends only on a stop request: whenever the thread has
\* terminated the stop flag is set, and no step taken with the flag clear,
\* after a connect error, a streaming error or the end of the stream, ends
\* the thread.
C28_TerminatesOnlyOnStop ==
    /\ [](stream.pc = "terminated" => stream.stop)
    /\ [][(~stream.stop /\ ~stream'.stop) => stream'.pc # "terminated"]_vars

\* C28 witness: a session had ended and the thread was waiting, not
\* terminated, when stop arrived; the next attempt failed to connect and the
\* thread has terminated.
C28_TerminatedAfterSurvivedDisconnect ==
    /\ stream.pc = "terminated"
    /\ stream.stop
    /\ shist.stop_at = "sleeping"
    /\ shist.exit = "connect_error"

\* C29: between the close of a session and the next connection attempt lies
\* exactly one wait of BackoffSeconds: the thread leaves the close only for
\* the stop check, the stop check only for the wait or the end, the wait only
\* for the next attempt, an attempt starts only out of the wait, and the
\* wait that preceded an attempt was BackoffSeconds long however many waits
\* came before.
C29_FixedSingleWait ==
    /\ [][(stream'.pc # stream.pc) =>
            /\ stream.pc = "closing" => stream'.pc = "check"
            /\ stream.pc = "check" => stream'.pc \in {"sleeping", "terminated"}
            /\ stream.pc = "sleeping" =>
                    /\ stream'.pc = "connecting"
                    /\ shist'.slept = BackoffSeconds
                    /\ shist'.waited
            /\ stream'.pc = "connecting" => stream.pc = "sleeping"]_vars
    /\ []((stream.pc = "connecting" /\ shist.waits > 0) =>
            (shist.waited /\ shist.slept = BackoffSeconds))

\* C29 witness: a second attempt in a row failed to connect, and the thread
\* is about to make the next one after a wait of BackoffSeconds.
C29_SameWaitAfterSecondFailure ==
    /\ stream.pc = "connecting" /\ ~stream.stop
    /\ shist.waits >= 2
    /\ shist.exit = "connect_error"
    /\ shist.slept = BackoffSeconds

\* C30: with no stop requested, every line that became available on the
\* session reaches the queue, also the lines still unread when the exit
\* status of the remote command became ready: when the inner loop is left
\* because the command ended, no line is left on the channel that the close
\* of the session would discard.
C30_NoLineLeftAtStreamEnd ==
    (stream.pc = "closing" /\ shist.exit = "end" /\ ~stream.stop) => chan = <<>>

\* the lines get_event took from the queue, in the order of the calls
TakenLines == SelectSeq(shist.taken, LAMBDA l : l # "Queue.Empty")

\* C31: the lines taken by get_event followed by the lines still queued are
\* the lines read from the stream, in the order of reading: no line is
\* taken twice, none is invented, none changes place, over any number of
\* sessions; and a call that takes a line answers with the event parsed from
\* the oldest line not yet taken, or None when that line is not an event.
C31_QueueKeepsReadOrder ==
    /\ [](TakenLines \o queue = shist.read)
    /\ [][(shist'.taken # shist.taken /\ queue # <<>>) =>
            LET oldest == shist.read[Len(TakenLines) + 1]
            IN  ret' = IF json_loads(oldest) = "ValueError" THEN "None"
                       ELSE json_loads(oldest)]_vars

\* C31 witness: after a reconnect, two events were read and returned in the
\* order of reading.
C31_TwoEventsInOrder ==
    /\ shist.read = <<EventA, EventB>>
    /\ shist.taken = <<EventA, EventB>>
    /\ ret = "event ref-updated"
    /\ shist.waits >= 1

\* C32: a step of the scratch directory creation that makes no directory
\* ends the call with the OSError in flight, runs no command and moves the
\* working directory nowhere; and a call ended that way has posted no review
\* comment, run no local command, and left the working directory where it
\* was on entry.
C32_ScratchFailurePropagates ==
    /\ [][(pc = "mkdir" /\ pc' # "mkdir" /\ hist'["made"] = hist["made"]) =>
            /\ pc' = "raised" /\ exc' = "OSError"
            /\ cmds' = cmds /\ cwd' = cwd /\ dirs' = dirs]_vars
    /\ []((pc = "raised" /\ exc = "OSError" /\ hist["made"] = {}) =>
            /\ ReviewComments = {}
            /\ LocalCmds = {}
            /\ cwd = hist["entry_cwd"]
            /\ dirs = {})

\* C32 witness: the gates passed on a fetched approval, os.makedirs raised,
\* and the call has ended with the OSError after the approvals query alone.
C32_RaisedAtScratchCreation ==
    /\ pc = "raised" /\ exc = "OSError"
    /\ hist["made"] = {} /\ hist["approved"] = "True"
    /\ Len(cmds) = 1 /\ cmds[1]["cmd"] = approvals_cmd(data)
    /\ cwd = "/srv"

\* the approvals run t evaluated: those of the server, or none when its
\* query failed
Fetched(t) == IF threads[t].fetch = "ok" THEN approvals ELSE <<>>

\* C33: no run looks at what another run did for the same change: a run
\* passes the gates exactly when the project is upstream-eligible, the
\* first comment line holds the trigger and every configured label is
\* approved by the approvals it fetched, whether or not the other run has
\* passed them or uploaded already; and only a run that passed the gates
\* runs the upload command.
C33_GatesIgnoreOtherRun ==
    \A t \in ThreadIds :
        /\ threads[t].gate # "none" =>
              (threads[t].gate = "passed" <=>
                    /\ Eligible
                    /\ TriggerInFirstLine
                    /\ \A n \in ConfiguredLabelNames : LabelSatisfied(n, Fetched(t)))
        /\ threads[t].uploaded => threads[t].gate = "passed"

\* C33 witness: both runs on the one change passed the gates, ran the
\* upload command and returned.
C33_UploadedTwice ==
    \A t \in ThreadIds :
        /\ threads[t].gate = "passed"
        /\ threads[t].uploaded
        /\ threads[t].pc = "returned"

NoTopic == "topic" \notin DOMAIN data["change"]

DownloadSucceeded ==
    \E i \in LocalCmds : cmds[i]["cmd"] = DownloadText /\ cmds[i]["status"] = "0"

\* C34: for an event without topic, no local command follows a successful
\* download, so the upload is never run; once the transfer block is left
\* the last command sent is the review comment 'Could not send to upstream:
\* Error running git-review', and when the call has ended the scratch
\* directory is gone.
C34_NoTopicNeverUploads ==
    NoTopic =>
        /\ \A i \in LocalCmds :
                (cmds[i]["cmd"] = DownloadText /\ cmds[i]["status"] = "0") =>
                    \A j \in LocalCmds : j <= i
        /\ (DownloadSucceeded /\ pc \in {"finally", "returned", "raised"}) =>
                /\ Len(cmds) \in ReviewComments
                /\ cmds[Len(cmds)]["cmd"] = ErrorRunningText
                /\ Cardinality(ReviewComments) = 1
        /\ (DownloadSucceeded /\ pc \in {"returned", "raised"}) =>
                /\ hist["made"] # {}
                /\ dirs = {}

\* C34 witness: the change has no topic, the download succeeded, the
\* failure comment was posted, the scratch directory was removed and the
\* call returned.
C34_ReturnedAfterTopicMissing ==
    /\ NoTopic /\ DownloadSucceeded
    /\ pc = "returned"
    /\ cmds[Len(cmds)]["cmd"] = ErrorRunningText /\ cmds[Len(cmds)]["status"] = "0"
    /\ dirs = {}

\* the create-group command was sent
CreateIssued == \E i \in 1..Len(cmds) : cmds[i]["cmd"] = get_create(data)

\* the group was on the server before the call: it is there and the call
\* did not create it
ExistedBefore ==
    /\ data["name"] \in groups
    /\ ~\E i \in 1..Len(cmds) :
            cmds[i]["cmd"] = get_create(data) /\ cmds[i]["status"] = "0"

\* C35: a call of Group.present that returned has returned True when the
\* group existed already or was created by the call, and False otherwise;
\* when the ls-groups command found the group, no create-group command was
\* sent.
C35_PresentReturnsTrueIffPresent ==
    ret # "none" =>
        /\ ret = IF data["name"] \in groups THEN "True" ELSE "False"
        /\ (ExistedBefore /\ cmds[1]["status"] = "0") => ~CreateIssued
====
